---- MODULE Spec2Model ----
(***************************************************************************)
(* Line breaking, orphan correction, pagination and justification of the   *)
(* typesetter (src/src/createParagraphs.ts, which also holds the drawText  *)
(* module from line 201 on), the page numbering (src/unnamed/part_003) and *)
(* the run of createPDF that chains them (src/src/index.ts).               *)
(*                                                                         *)
(* Strings.  The code only ever looks at a string through ' '-separated    *)
(* pieces (split(' '), join(' '), trim(), endsWith, the heading patterns,  *)
(* the additive width), so a string is modelled as the non-empty sequence  *)
(* of its ' '-separated tokens, which is exactly what split(' ') returns:  *)
(*     ""      is <<0>>          "a"    is <<1>>                           *)
(*     "a "    is <<1, 0>>       "a  a" is <<1, 0, 1>>                     *)
(* Token 0 is the empty token; the other tokens are space-free words.      *)
(* Array indices are 0-based as in the code; the TLA+ sequences holding    *)
(* the arrays are 1-based, so element i of an array a is a[i + 1].         *)
(***************************************************************************)
EXTENDS Integers, Sequences, FiniteSets

\* ---------------------------------------------------------------- bounds

\* Total number of words in the paragraphs handed to createLines.
MaxTotalWords == 5
\* Number of paragraphs handed to createLines.
MaxParagraphs == 2
\* Number of lines in a line stream handed directly to drawTextLines.
MaxLines == 5

\* ------------------------------------------------------------ vocabulary

\* 0 "" | 1 "aa" | 2 "WWWW" (a wide word) | 3 "to:" | 4 "CHAPTER" | 5 "1."
\* 6 "aa." | 7 "AA." | 8 "AA" | 9 "TO:" | 10 "AA—AA" | 11 "AA—"
\* 13 "AA——AA" | 14 "—" | 15 "AA——"   (12 is the line break of a text)
Tokens == (0..11) \cup {13, 14, 15}
\* The words of the paragraphs given to createLines.
Words == {0, 1, 2}
\* Advance width of a token in half-ems of the font (font metrics input).
Advance(t) == CASE t = 0 -> 0 [] t = 1 -> 2 [] t = 2 -> 8
                [] t = 3 -> 2 [] t = 4 -> 4 [] t = 5 -> 1
                [] t = 6 -> 3 [] t = 7 -> 5 [] t = 8 -> 4 [] t = 9 -> 4
                [] t = 10 -> 10 [] t = 11 -> 6
                [] t = 13 -> 12 [] t = 14 -> 2 [] t = 15 -> 8
SpaceAdvance == 1
TokenEndsWithColon(t) == t = 3
TokenIsCHAPTER(t) == t = 4
TokenIsNumberDot(t) == t = 5
TokenEndsWithPeriod(t) == t \in {5, 6, 7}
\* a dash of the token is followed by another character of the token
TokenHasInnerDash(t) == t \in {10, 13, 15}
TokenEndsWithDash(t) == t \in {11, 14, 15}
\* the token with '— ' for each of its dashes that another character follows
DashPieces(t) == CASE t = 10 -> <<11, 8>> [] t = 13 -> <<11, 14, 8>> [] t = 15 -> <<11, 14>>
\* toUpperCase of a token
TokenToUpperCase(t) == CASE t = 1 -> 8 [] t = 6 -> 7 [] t = 3 -> 9 [] OTHER -> t

\* ------------------------------------------------------- program constants

margin == 100
parIndentWidth == 18
paragraphBreakHeight == 10
fontSize == 14
lineHeight == 20
chapterTitleFontSize == 18
indentationWidth == 18

\* The widths of the text column tried (textMaxWidth = width - 2 * margin).
TextMaxWidths == {50, 60}
\* The page heights tried: a text height of 3 and of 5 line-heights.
PageHeights == {2 * margin + 3 * lineHeight, 2 * margin + 5 * lineHeight}

\* --------------------------------------------------------------- strings

EmptyString == <<0>>

RECURSIVE SumAdvance(_)
SumAdvance(s) == IF s = <<>> THEN 0 ELSE Advance(Head(s)) + SumAdvance(Tail(s))

\* font.widthOfTextAtSize(text, size): additive, linear in the size.
widthOfTextAtSize(s, size) == ((SumAdvance(s) + (Len(s) - 1) * SpaceAdvance) * size) \div 2

RECURSIVE TrimStart(_)
TrimStart(s) == IF Len(s) > 1 /\ Head(s) = 0 THEN TrimStart(Tail(s)) ELSE s

RECURSIVE TrimEnd(_)
TrimEnd(s) == IF Len(s) > 1 /\ s[Len(s)] = 0 THEN TrimEnd(SubSeq(s, 1, Len(s) - 1)) ELSE s

\* String.prototype.trim
Trim(s) == TrimEnd(TrimStart(s))

\* words.join(' ') of an array of words
Join(ws) == IF ws = <<>> THEN EmptyString ELSE ws

\* line.endsWith(':')
EndsWithColon(s) == TokenEndsWithColon(s[Len(s)])

\* The words of a text that are not empty, in order.
RECURSIVE NonEmptyWords(_)
NonEmptyWords(s) ==
    IF s = <<>> THEN <<>>
    ELSE (IF Head(s) = 0 THEN <<>> ELSE <<Head(s)>>) \o NonEmptyWords(Tail(s))

RECURSIVE Flatten(_)
Flatten(ss) == IF ss = <<>> THEN <<>> ELSE Head(ss) \o Flatten(Tail(ss))

\* ------------------------------------------------------------------ state

VARIABLES
    paragraphsAsWordArrays, \* createLines: the input paragraphs
    textMaxWidth,           \* createLines / drawTextLines: width of the column
    pc,                     \* which loop is running
    p,                      \* createLines: index of the forEach over paragraphs
    i,                      \* index of the running loop
    currentLine,            \* createLines: the line buffer
    isFirstLineOfParagraph, \* createLines: the buffer is a first line
    lines, isLastLine, isFirstLine,
    greedyLines,            \* the lines as they were when handleOrphans began
    lineParagraph,          \* for each line, the index of the paragraph that pushed it
    pageHeight, newChapterIndices,
    page,                   \* drawTextLines: number of the current (last) page
    yPos, remainingSpace, lineIndex,
    colonEncountered, afterColonLineIndex, lastLineOfParagraph,
    remainingLinesInParagraph,
    placed,                 \* drawTextLines: what was put on the pages, in order
    textContent,            \* createPDF: the input text, as its '\n'-separated paragraphs
    capitalizedParagraphs,  \* createPDF: the paragraphs after capitalizeChapterTitle
    overlay,                \* addPageNumbers: what it drew on each page, in page order
    steps,                  \* createPDF: the steps it has begun, in order
    pdfBytes,               \* createPDF: what pdfDoc.save() returned
    written                 \* createPDF: what writeFile was given, call by call

lineVars == <<paragraphsAsWordArrays, p, currentLine, isFirstLineOfParagraph, greedyLines,
              lineParagraph>>
streamVars == <<lines, isLastLine, isFirstLine>>
drawVars == <<pageHeight, newChapterIndices, page, yPos, remainingSpace, lineIndex,
              colonEncountered, afterColonLineIndex, lastLineOfParagraph,
              remainingLinesInParagraph, placed>>
runVars == <<steps, pdfBytes, written>>
pdfVars == <<textContent, capitalizedParagraphs, overlay, runVars>>
vars == <<lineVars, streamVars, drawVars, pdfVars, textMaxWidth, pc, i>>

\* ------------------------------------------------------------ createLines

\* The word arrays createLines is given: up to MaxTotalWords words, cut into
\* up to MaxParagraphs non-empty word arrays (paragraph.split(/\s+/) never
\* returns an empty array; a blank paragraph is the array holding "").
InputWordSeqs == UNION {[1..n -> Words] : n \in 0..MaxTotalWords}

InputCuts(n) == {c \in SUBSET (2..n) : Cardinality(c) < MaxParagraphs}

SplitParagraphs(ws, cuts) ==
    LET starts == IF ws = <<>> THEN {} ELSE {1} \cup cuts
        Start(k) == CHOOSE s \in starts : Cardinality({t \in starts : t < s}) = k - 1
        End(k) == IF k = Cardinality(starts) THEN Len(ws) ELSE Start(k + 1) - 1
    IN  [k \in 1..Cardinality(starts) |-> SubSeq(ws, Start(k), End(k))]

\* addWordToLine flushing the buffer before every word.
addWordToLineAlwaysFlushes(word, currentLine0, lines0, isLastLine0, isFirstLine0, isFirst0, maxWidth) ==
    [currentLine |-> <<word>>, isFirstLineOfParagraph |-> FALSE,
     lines |-> Append(lines0, Trim(currentLine0)),
     isLastLine |-> Append(isLastLine0, FALSE),
     isFirstLine |-> Append(isFirstLine0, isFirst0)]

\* addWordToLine flushing a line that its next word fills exactly.
addWordToLineStrictlyNarrower(word, currentLine0, lines0, isLastLine0, isFirstLine0, isFirst0, maxWidth) ==
    LET potentialLine == IF currentLine0 # EmptyString
                         THEN Append(currentLine0, word) ELSE <<word>>
        potentialLineWidth == widthOfTextAtSize(potentialLine, fontSize)
    IN  IF potentialLineWidth < maxWidth
        THEN [currentLine |-> potentialLine, isFirstLineOfParagraph |-> isFirst0,
              lines |-> lines0, isLastLine |-> isLastLine0, isFirstLine |-> isFirstLine0]
        ELSE [currentLine |-> <<word>>, isFirstLineOfParagraph |-> FALSE,
              lines |-> Append(lines0, Trim(currentLine0)),
              isLastLine |-> Append(isLastLine0, FALSE),
              isFirstLine |-> Append(isFirstLine0, isFirst0)]

\* addWordToLine: the new buffer and flag, and the arrays it may have pushed to.
addWordToLine(word, currentLine0, lines0, isLastLine0, isFirstLine0, isFirst0, maxWidth) ==
    LET potentialLine == IF currentLine0 # EmptyString
                         THEN Append(currentLine0, word) ELSE <<word>>
        potentialLineWidth == widthOfTextAtSize(potentialLine, fontSize)
    IN  IF potentialLineWidth <= maxWidth
        THEN [currentLine |-> potentialLine, isFirstLineOfParagraph |-> isFirst0,
              lines |-> lines0, isLastLine |-> isLastLine0, isFirstLine |-> isFirstLine0]
        ELSE [currentLine |-> <<word>>, isFirstLineOfParagraph |-> FALSE,
              lines |-> Append(lines0, Trim(currentLine0)),
              isLastLine |-> Append(isLastLine0, FALSE),
              isFirstLine |-> Append(isFirstLine0, isFirst0)]

processLastLine(currentLine0, lines0, isLastLine0, isFirstLine0, isFirst0) ==
    [lines |-> Append(lines0, Trim(currentLine0)),
     isLastLine |-> Append(isLastLine0, TRUE),
     isFirstLine |-> Append(isFirstLine0, isFirst0)]

\* handleOrphan putting the moved word behind the orphan instead of in front.
handleOrphanAppends(lines0, isLastLine0, k) ==
    IF isLastLine0[k + 1] /\ Len(lines0[k + 1]) = 1
    THEN LET previousLine == lines0[k]
             lastWord == previousLine[Len(previousLine)]
             previousLineWords == SubSeq(previousLine, 1, Len(previousLine) - 1)
         IN  IF lastWord # 0
             THEN [lines0 EXCEPT ![k] = Join(previousLineWords),
                                 ![k + 1] = lines0[k + 1] \o <<lastWord>>]
             ELSE lines0
    ELSE lines0

\* handleOrphan leaving the moved word on the line before as well.
handleOrphanCopies(lines0, isLastLine0, k) ==
    IF isLastLine0[k + 1] /\ Len(lines0[k + 1]) = 1
    THEN LET previousLine == lines0[k]
             lastWord == previousLine[Len(previousLine)]
         IN  IF lastWord # 0
             THEN [lines0 EXCEPT ![k + 1] = <<lastWord>> \o lines0[k + 1]]
             ELSE lines0
    ELSE lines0

\* The body of the loop of handleOrphans for index k (0-based).
handleOrphan(lines0, isLastLine0, k) ==
    IF isLastLine0[k + 1] /\ Len(lines0[k + 1]) = 1
    THEN LET previousLine == lines0[k]
             lastWord == previousLine[Len(previousLine)]
             previousLineWords == SubSeq(previousLine, 1, Len(previousLine) - 1)
         IN  IF lastWord # 0
             THEN [lines0 EXCEPT ![k] = Join(previousLineWords),
                                 ![k + 1] = <<lastWord>> \o lines0[k + 1]]
             ELSE lines0
    ELSE lines0

RECURSIVE handleOrphansFrom(_, _, _)
handleOrphansFrom(lines0, isLastLine0, k) ==
    IF k < Len(lines0)
    THEN handleOrphansFrom(handleOrphan(lines0, isLastLine0, k), isLastLine0, k + 1)
    ELSE lines0

handleOrphans(lines0, isLastLine0) ==
    IF Len(lines0) < 2 THEN lines0 ELSE handleOrphansFrom(lines0, isLastLine0, 1)

\* The locals of drawTextLines as it starts on a page.
DrawStart ==
    /\ page = 1
    /\ yPos = pageHeight - margin
    /\ remainingSpace = pageHeight - margin - margin
    /\ lineIndex = 0
    /\ colonEncountered = FALSE
    /\ afterColonLineIndex = -1
    /\ lastLineOfParagraph = -1
    /\ remainingLinesInParagraph = 0
    /\ placed = <<>>

\* createLines or drawTextLines called on its own: no text was read, no page
\* was numbered.
NoDocument ==
    /\ textContent = <<EmptyString>>
    /\ capitalizedParagraphs = <<>>
    /\ overlay = <<>>
    /\ steps = <<>>
    /\ pdfBytes = <<>>
    /\ written = <<>>

Init ==
    /\ \E ws \in InputWordSeqs : \E cuts \in InputCuts(Len(ws)) :
          paragraphsAsWordArrays = SplitParagraphs(ws, cuts)
    /\ textMaxWidth \in TextMaxWidths
    /\ pc = "createLines"
    /\ p = 0
    /\ i = 0
    /\ currentLine = EmptyString
    /\ isFirstLineOfParagraph = TRUE
    /\ lines = <<>>
    /\ isLastLine = <<>>
    /\ isFirstLine = <<>>
    /\ greedyLines = <<>>
    /\ lineParagraph = <<>>
    /\ pageHeight = 2 * margin + 3 * lineHeight
    /\ newChapterIndices = {}
    /\ DrawStart
    /\ NoDocument

\* One iteration of the loop over the words of paragraph p.
AddWord ==
    /\ pc = "createLines"
    /\ p < Len(paragraphsAsWordArrays)
    /\ i < Len(paragraphsAsWordArrays[p + 1])
    /\ LET word == paragraphsAsWordArrays[p + 1][i + 1]
           maxWidth == IF isFirstLineOfParagraph
                       THEN textMaxWidth - parIndentWidth ELSE textMaxWidth
           result == addWordToLine(word, currentLine, lines, isLastLine, isFirstLine,
                                   isFirstLineOfParagraph, maxWidth)
       IN  /\ currentLine' = result.currentLine
           /\ isFirstLineOfParagraph' = result.isFirstLineOfParagraph
           /\ lines' = result.lines
           /\ isLastLine' = result.isLastLine
           /\ isFirstLine' = result.isFirstLine
           /\ lineParagraph' = IF Len(result.lines) > Len(lines)
                               THEN Append(lineParagraph, p) ELSE lineParagraph
    /\ i' = i + 1
    /\ UNCHANGED <<paragraphsAsWordArrays, p, greedyLines, textMaxWidth, pc, drawVars, pdfVars>>

\* The end of the callback for paragraph p: its last line, then the next paragraph.
EndParagraph ==
    /\ pc = "createLines"
    /\ p < Len(paragraphsAsWordArrays)
    /\ i = Len(paragraphsAsWordArrays[p + 1])
    /\ IF Trim(currentLine) # EmptyString
       THEN LET result == processLastLine(currentLine, lines, isLastLine, isFirstLine,
                                          isFirstLineOfParagraph)
            IN  /\ lines' = result.lines
                /\ isLastLine' = result.isLastLine
                /\ isFirstLine' = result.isFirstLine
                /\ lineParagraph' = Append(lineParagraph, p)
       ELSE UNCHANGED <<streamVars, lineParagraph>>
    /\ p' = p + 1
    /\ i' = 0
    /\ currentLine' = EmptyString
    /\ isFirstLineOfParagraph' = TRUE
    /\ UNCHANGED <<paragraphsAsWordArrays, greedyLines, textMaxWidth, pc, drawVars, pdfVars>>

\* After the last paragraph: handleOrphans on the whole line list, and return.
HandleOrphans ==
    /\ pc = "createLines"
    /\ p = Len(paragraphsAsWordArrays)
    /\ greedyLines' = lines
    /\ lines' = handleOrphans(lines, isLastLine)
    /\ pc' = "linesDone"
    /\ UNCHANGED <<paragraphsAsWordArrays, p, i, currentLine, isFirstLineOfParagraph,
                   isLastLine, isFirstLine, lineParagraph, textMaxWidth, drawVars,
                   pdfVars>>

Next == AddWord \/ EndParagraph \/ HandleOrphans

Spec == Init /\ [][Next]_vars

\* ---------------------------------------------------------- drawTextLines

\* The widths of the text column tried when a line stream is drawn.
DrawTextMaxWidths == {100}

\* The texts of the lines of a stream: "" (a break marker), "aa aa",
\* "aa to:", "CHAPTER 1. aa".
DrawTexts == {EmptyString, <<1, 1>>, <<1, 3>>, <<4, 5, 1>>}

\* /^CHAPTER \d+\. / matches the line
MatchesChapterStart(s) ==
    Len(s) >= 3 /\ TokenIsCHAPTER(s[1]) /\ TokenIsNumberDot(s[2])

\* /^CHAPTER \d+\./i matches the trimmed line
MatchesChapterTitle(s) ==
    LET t == Trim(s) IN Len(t) >= 2 /\ TokenIsCHAPTER(t[1]) /\ TokenIsNumberDot(t[2])

getNewChapterIndices(lines0) ==
    {k \in 0..(Len(lines0) - 1) : MatchesChapterStart(lines0[k + 1])}

\* A stream of paragraphs with break markers between them: a marker carries
\* no flag, a paragraph runs from its isFirstLine line to its isLastLine line.
IsFirstOf(texts, lasts) ==
    [j \in 1..Len(texts) |->
        texts[j] # EmptyString /\ (j = 1 \/ lasts[j - 1] \/ texts[j - 1] = EmptyString)]

WellFormedStream(texts, lasts) ==
    /\ \A j \in 1..Len(texts) : texts[j] = EmptyString => ~lasts[j]
    /\ \A j \in 1..Len(texts) :
          texts[j] = EmptyString => (j = 1 \/ lasts[j - 1] \/ texts[j - 1] = EmptyString)
    /\ Len(texts) > 0 => (lasts[Len(texts)] \/ texts[Len(texts)] = EmptyString)

\* The line streams drawTextLines is given: up to MaxLines lines.
DrawStreams ==
    {st \in UNION {[texts : [1..n -> DrawTexts], lasts : [1..n -> BOOLEAN]] : n \in 0..MaxLines} :
        WellFormedStream(st.texts, st.lasts)}

\* The cursor of drawTextLines: the current page and the position on it.
Cursor == [page |-> page, yPos |-> yPos, remainingSpace |-> remainingSpace]

\* startNewPage resetting the cursor but not the space left.
startNewPageKeepsSpace(c) ==
    [page |-> c.page + 1, yPos |-> pageHeight - margin, remainingSpace |-> c.remainingSpace]

startNewPage(c) ==
    [page |-> c.page + 1, yPos |-> pageHeight - margin,
     remainingSpace |-> (pageHeight - margin) - margin]

\* ConsumeSpace forgetting the cursor: only remainingSpace -= h.
ConsumeSpaceKeepsY(c, h) ==
    [c EXCEPT !.remainingSpace = @ - h]

\* yPos -= h; remainingSpace -= h;
ConsumeSpace(c, h) ==
    [c EXCEPT !.yPos = @ - h, !.remainingSpace = @ - h]

RECURSIVE calculateRemainingLinesFrom(_, _)
calculateRemainingLinesFrom(startIndex, j) ==
    IF j < Len(lines)
    THEN IF isLastLine[j + 1] THEN j - startIndex + 1
         ELSE calculateRemainingLinesFrom(startIndex, j + 1)
    ELSE 0

calculateRemainingLinesInParagraph(startIndex) ==
    calculateRemainingLinesFrom(startIndex, startIndex)

\* isChapterTitle of line k
IsChapterTitle(k) == k \in newChapterIndices /\ MatchesChapterTitle(lines[k + 1])

\* remainingLinesInParagraph as the page-break rules of line k see it.
RemainingLinesAt(k) ==
    IF isFirstLine[k + 1] THEN calculateRemainingLinesInParagraph(k)
    ELSE remainingLinesInParagraph

\* PageBreakRules with every space comparison non-strict.
PageBreakRulesNonStrict(c, k) ==
    LET remaining == RemainingLinesAt(k)
        c1 == IF IsChapterTitle(k) \/ lineIndex \in newChapterIndices
              THEN startNewPage(c) ELSE c
        c2 == IF remaining <= 3 /\ c1.remainingSpace <= remaining * lineHeight
              THEN startNewPage(c1) ELSE c1
        c3 == IF isFirstLine[k + 1] /\ c2.remainingSpace <= 3 * lineHeight /\ remaining > 3
              THEN startNewPage(c2) ELSE c2
    IN  IF c3.remainingSpace <= lineHeight THEN startNewPage(c3) ELSE c3

\* PageBreakRules without the chapter break.
PageBreakRulesNoChapter(c, k) ==
    LET remaining == RemainingLinesAt(k)
        c2 == IF remaining <= 3 /\ c.remainingSpace < remaining * lineHeight
              THEN startNewPage(c) ELSE c
        c3 == IF isFirstLine[k + 1] /\ c2.remainingSpace < 3 * lineHeight /\ remaining > 3
              THEN startNewPage(c2) ELSE c2
    IN  IF c3.remainingSpace < lineHeight THEN startNewPage(c3) ELSE c3

\* PageBreakRules without the minimum-space rule.
PageBreakRulesNoMinimum(c, k) ==
    LET remaining == RemainingLinesAt(k)
        c1 == IF IsChapterTitle(k) \/ lineIndex \in newChapterIndices
              THEN startNewPage(c) ELSE c
        c2 == IF remaining <= 3 /\ c1.remainingSpace < remaining * lineHeight
              THEN startNewPage(c1) ELSE c1
    IN  IF isFirstLine[k + 1] /\ c2.remainingSpace < 3 * lineHeight /\ remaining > 3
        THEN startNewPage(c2) ELSE c2

\* The page-break rules applied before line k is placed, in the code's order:
\* chapter break, short paragraph at the bottom, widow, minimum space.
PageBreakRules(c, k) ==
    LET remaining == RemainingLinesAt(k)
        c1 == IF IsChapterTitle(k) \/ lineIndex \in newChapterIndices
              THEN startNewPage(c) ELSE c
        c2 == IF remaining <= 3 /\ c1.remainingSpace < remaining * lineHeight
              THEN startNewPage(c1) ELSE c1
        c3 == IF isFirstLine[k + 1] /\ c2.remainingSpace < 3 * lineHeight /\ remaining > 3
              THEN startNewPage(c2) ELSE c2
    IN  IF c3.remainingSpace < lineHeight THEN startNewPage(c3) ELSE c3

\* The x position of word j (1-based) of a justified line, as a fraction:
\* xPos plus, for each earlier word, its width, a space and the additional space.
RECURSIVE WidthsBefore(_, _, _)
WidthsBefore(words, j, size) ==
    IF j <= 1 THEN 0
    ELSE WidthsBefore(words, j - 1, size) + widthOfTextAtSize(<<words[j - 1]>>, size)

\* JustifiedX putting a line's only word in the middle of the free width.
JustifiedXCentresSingleWord(words, j, xPos, extraSpace, currentFontSize) ==
    LET numSpaces == Len(words) - 1
        spaceWidth == (SpaceAdvance * fontSize) \div 2
        whole == xPos + WidthsBefore(words, j, currentFontSize) + (j - 1) * spaceWidth
    IN  IF numSpaces > 0
        THEN [num |-> numSpaces * whole + (j - 1) * extraSpace, den |-> numSpaces]
        ELSE [num |-> 2 * whole + extraSpace, den |-> 2]

JustifiedX(words, j, xPos, extraSpace, currentFontSize) ==
    LET numSpaces == Len(words) - 1
        spaceWidth == (SpaceAdvance * fontSize) \div 2
        den == IF numSpaces > 0 THEN numSpaces ELSE 1
        whole == xPos + WidthsBefore(words, j, currentFontSize) + (j - 1) * spaceWidth
    IN  [num |-> den * whole + (IF numSpaces > 0 THEN (j - 1) * extraSpace ELSE 0),
         den |-> den]

\* drawJustifiedLine spreading the words of every line, a last line too.
drawJustifiedLineSpreadsLast(line, y, isLast0, isFirst0, isChapterTitle0) ==
    LET xPos == IF isFirst0 /\ ~isChapterTitle0 THEN margin + indentationWidth ELSE margin
        currentFontSize == IF isChapterTitle0 THEN chapterTitleFontSize ELSE fontSize
        availableWidth == IF isFirst0 /\ ~isChapterTitle0
                          THEN textMaxWidth - indentationWidth ELSE textMaxWidth
        extraSpace == availableWidth - widthOfTextAtSize(line, fontSize)
    IN  [j \in 1..Len(line) |->
            [text |-> <<line[j]>>,
             x |-> JustifiedX(line, j, xPos, extraSpace, currentFontSize),
             y |-> y, size |-> currentFontSize]]

\* drawJustifiedLine indenting a chapter title like any first line.
drawJustifiedLineIndentsTitles(line, y, isLast0, isFirst0, isChapterTitle0) ==
    LET xPos == IF isFirst0 THEN margin + indentationWidth ELSE margin
        currentFontSize == IF isChapterTitle0 THEN chapterTitleFontSize ELSE fontSize
        availableWidth == IF isFirst0 THEN textMaxWidth - indentationWidth ELSE textMaxWidth
        extraSpace == availableWidth - widthOfTextAtSize(line, fontSize)
    IN  IF isLast0
        THEN <<[text |-> line, x |-> [num |-> xPos, den |-> 1], y |-> y,
                size |-> currentFontSize]>>
        ELSE [j \in 1..Len(line) |->
                [text |-> <<line[j]>>,
                 x |-> JustifiedX(line, j, xPos, extraSpace, currentFontSize),
                 y |-> y, size |-> currentFontSize]]

\* drawJustifiedLine: the page.drawText calls it makes, in order.
drawJustifiedLine(line, y, isLast0, isFirst0, isChapterTitle0) ==
    LET words == line
        lineWidth == widthOfTextAtSize(line, fontSize)
        xPos == IF isFirst0 /\ ~isChapterTitle0 THEN margin + indentationWidth ELSE margin
        currentFontSize == IF isChapterTitle0 THEN chapterTitleFontSize ELSE fontSize
        availableWidth == IF isFirst0 /\ ~isChapterTitle0
                          THEN textMaxWidth - indentationWidth ELSE textMaxWidth
        extraSpace == availableWidth - lineWidth
    IN  IF isLast0
        THEN <<[text |-> line, x |-> [num |-> xPos, den |-> 1], y |-> y,
                size |-> currentFontSize]>>
        ELSE [j \in 1..Len(words) |->
                [text |-> <<words[j]>>,
                 x |-> JustifiedX(words, j, xPos, extraSpace, currentFontSize),
                 y |-> y, size |-> currentFontSize]]

\* The colon state of drawTextLines.
ColonState == [colonEncountered |-> colonEncountered,
               afterColonLineIndex |-> afterColonLineIndex,
               lastLineOfParagraph |-> lastLineOfParagraph]

ColonCleared == [colonEncountered |-> FALSE, afterColonLineIndex |-> -1,
                 lastLineOfParagraph |-> -1]

\* PlaceBreakMarker closing the colon without clearing the colon state.
PlaceBreakMarkerKeepsColon(c, cs) ==
    LET c1 == ConsumeSpace(c, paragraphBreakHeight)
    IN  IF cs.colonEncountered /\ cs.lastLineOfParagraph >= 0
        THEN [cursor |-> ConsumeSpace(c1, lineHeight), colon |-> cs]
        ELSE [cursor |-> c1, colon |-> cs]

\* The branch for an empty line: the cursor and colon state after it.
PlaceBreakMarker(c, cs) ==
    LET c1 == ConsumeSpace(c, paragraphBreakHeight)
    IN  IF cs.colonEncountered /\ cs.lastLineOfParagraph >= 0
        THEN [cursor |-> ConsumeSpace(c1, lineHeight), colon |-> ColonCleared]
        ELSE [cursor |-> c1, colon |-> cs]

\* AdvanceAfterLine without the colon-close rule.
AdvanceAfterLineNeverCloses(c, cs, k) ==
    LET line == lines[k + 1]
        c1 == ConsumeSpace(c, lineHeight)
        colon == EndsWithColon(line)
        c2 == IF colon THEN ConsumeSpace(c1, lineHeight) ELSE c1
        cs2 == [colonEncountered |-> colon \/ cs.colonEncountered,
                afterColonLineIndex |-> IF colon THEN k ELSE cs.afterColonLineIndex,
                lastLineOfParagraph |-> IF isLastLine[k + 1] THEN k
                                        ELSE cs.lastLineOfParagraph]
    IN  [cursor |-> IF IsChapterTitle(k) THEN ConsumeSpace(c2, lineHeight) ELSE c2,
         colon |-> cs2]

\* AdvanceAfterLine recording a colon without consuming its line-height.
AdvanceAfterLineColonUncharged(c, cs, k) ==
    LET line == lines[k + 1]
        c1 == ConsumeSpace(c, lineHeight)
        colon == EndsWithColon(line)
        cs2 == [colonEncountered |-> colon \/ cs.colonEncountered,
                afterColonLineIndex |-> IF colon THEN k ELSE cs.afterColonLineIndex,
                lastLineOfParagraph |-> IF isLastLine[k + 1] THEN k
                                        ELSE cs.lastLineOfParagraph]
        close == cs2.colonEncountered /\ cs2.lastLineOfParagraph > cs2.afterColonLineIndex
        c3 == IF close THEN ConsumeSpace(c1, lineHeight) ELSE c1
        cs3 == IF close THEN ColonCleared ELSE cs2
    IN  [cursor |-> IF IsChapterTitle(k) THEN ConsumeSpace(c3, lineHeight) ELSE c3,
         colon |-> cs3]

\* AdvanceAfterLine without the extra space after a chapter title.
AdvanceAfterLineNoChapterGap(c, cs, k) ==
    LET line == lines[k + 1]
        c1 == ConsumeSpace(c, lineHeight)
        colon == EndsWithColon(line)
        c2 == IF colon THEN ConsumeSpace(c1, lineHeight) ELSE c1
        cs2 == [colonEncountered |-> colon \/ cs.colonEncountered,
                afterColonLineIndex |-> IF colon THEN k ELSE cs.afterColonLineIndex,
                lastLineOfParagraph |-> IF isLastLine[k + 1] THEN k
                                        ELSE cs.lastLineOfParagraph]
        close == cs2.colonEncountered /\ cs2.lastLineOfParagraph > cs2.afterColonLineIndex
    IN  [cursor |-> IF close THEN ConsumeSpace(c2, lineHeight) ELSE c2,
         colon |-> IF close THEN ColonCleared ELSE cs2]

\* The spacing after line k has been drawn: the cursor and colon state after it.
AdvanceAfterLine(c, cs, k) ==
    LET line == lines[k + 1]
        c1 == ConsumeSpace(c, lineHeight)
        colon == EndsWithColon(line)
        c2 == IF colon THEN ConsumeSpace(c1, lineHeight) ELSE c1
        cs2 == [colonEncountered |-> colon \/ cs.colonEncountered,
                afterColonLineIndex |-> IF colon THEN k ELSE cs.afterColonLineIndex,
                lastLineOfParagraph |-> IF isLastLine[k + 1] THEN k
                                        ELSE cs.lastLineOfParagraph]
        close == cs2.colonEncountered /\ cs2.lastLineOfParagraph > cs2.afterColonLineIndex
        c3 == IF close THEN ConsumeSpace(c2, lineHeight) ELSE c2
        cs3 == IF close THEN ColonCleared ELSE cs2
    IN  [cursor |-> IF IsChapterTitle(k) THEN ConsumeSpace(c3, lineHeight) ELSE c3,
         colon |-> cs3]

\* drawTextLines is called with a stream of lines and its chapter indices.
InitDraw ==
    /\ \E st \in DrawStreams :
          /\ lines = st.texts
          /\ isLastLine = st.lasts
          /\ isFirstLine = IsFirstOf(st.texts, st.lasts)
    /\ newChapterIndices = getNewChapterIndices(lines)
    /\ textMaxWidth \in DrawTextMaxWidths
    /\ pageHeight \in PageHeights
    /\ pc = "drawTextLines"
    /\ i = 0
    /\ paragraphsAsWordArrays = <<>>
    /\ p = 0
    /\ currentLine = EmptyString
    /\ isFirstLineOfParagraph = TRUE
    /\ greedyLines = <<>>
    /\ lineParagraph = <<>>
    /\ DrawStart
    /\ NoDocument

\* One call of the callback of lines.forEach, for line i.
DrawTextLine ==
    /\ pc = "drawTextLines"
    /\ i < Len(lines)
    /\ LET line == lines[i + 1]
           c == PageBreakRules(Cursor, i)
           remaining == RemainingLinesAt(i)
           after == IF line = EmptyString
                    THEN PlaceBreakMarker(c, ColonState)
                    ELSE AdvanceAfterLine(c, ColonState, i)
           calls == IF line = EmptyString THEN <<>>
                    ELSE drawJustifiedLine(line, c.yPos, isLastLine[i + 1],
                                           isFirstLine[i + 1], IsChapterTitle(i))
       IN  /\ placed' = Append(placed, [index |-> i, page |-> c.page, yPos |-> c.yPos,
                                        remainingSpace |-> c.remainingSpace,
                                        calls |-> calls,
                                        consumed |-> c.yPos - after.cursor.yPos])
           /\ remainingLinesInParagraph' =
                 IF line = EmptyString THEN remaining ELSE remaining - 1
           /\ page' = after.cursor.page
           /\ yPos' = after.cursor.yPos
           /\ remainingSpace' = after.cursor.remainingSpace
           /\ colonEncountered' = after.colon.colonEncountered
           /\ afterColonLineIndex' = after.colon.afterColonLineIndex
           /\ lastLineOfParagraph' = after.colon.lastLineOfParagraph
    /\ lineIndex' = lineIndex + 1
    /\ i' = i + 1
    /\ UNCHANGED <<lineVars, streamVars, pageHeight, newChapterIndices, textMaxWidth, pc,
                   pdfVars>>

\* The stream is exhausted: drawTextLines returns the last page.
ReturnPage ==
    /\ pc = "drawTextLines"
    /\ i = Len(lines)
    /\ pc' = "drawDone"
    /\ UNCHANGED <<lineVars, streamVars, drawVars, pdfVars, textMaxWidth, i>>

NextDraw == DrawTextLine \/ ReturnPage

SpecDraw == InitDraw /\ [][NextDraw]_vars

\* ---------------------------------------------------------------- createPDF

\* Number of paragraphs ('\n'-separated pieces) of the input text.
MaxTextParagraphs == 3

\* The widths of the text column tried when a whole document is typeset.
PDFTextMaxWidths == {60, 120}

\* The paragraphs of the input text: "", " ", "aa", "aa aa", "CHAPTER 1. aa.",
\* "CHAPTER 1. aa", "CHAPTER aa. aa.", "CHAPTER 1. aa. aa", "WWWW aa aa",
\* "aa  AA—AA", "aa aa CHAPTER 1. 1.".
InputParagraphs ==
    {EmptyString, <<0, 0>>, <<1>>, <<1, 1>>, <<4, 5, 6>>, <<4, 5, 1>>, <<4, 6, 6>>,
     <<4, 5, 6, 1>>, <<2, 1, 1>>, <<1, 0, 10>>, <<1, 1, 4, 5, 5>>}

\* The line break '\n' in a text: a text is the sequence of the tokens of its
\* lines, the tokens of a line one ' ' apart, with a NewLine between two lines.
NewLine == 12

RECURSIVE JoinLines(_)
JoinLines(paragraphs) ==
    IF Len(paragraphs) = 1 THEN paragraphs[1]
    ELSE paragraphs[1] \o <<NewLine>> \o JoinLines(Tail(paragraphs))

\* The input texts: up to MaxTextParagraphs paragraphs, one per line.
TextContents ==
    {JoinLines(ps) : ps \in UNION {[1..n -> InputParagraphs] : n \in 1..MaxTextParagraphs}}

\* text.replace(/—/g, '— ')
RECURSIVE insertSpaceAfterEveryDash(_)
insertSpaceAfterEveryDash(text) ==
    IF text = <<>> THEN <<>>
    ELSE LET t == Head(text)
             pieces == IF TokenHasInnerDash(t) THEN DashPieces(t) ELSE <<t>>
         IN  IF TokenEndsWithDash(t) THEN pieces \o <<0>> \o insertSpaceAfterEveryDash(Tail(text))
             ELSE pieces \o insertSpaceAfterEveryDash(Tail(text))

\* text.replace(/—(?!\s)/g, '— '): a dash that another character of its token
\* follows, or that ends the text, gets a space; a dash before ' ' or '\n' is
\* left alone.
RECURSIVE insertSpaceAfterDash(_)
insertSpaceAfterDash(text) ==
    IF text = <<>> THEN <<>>
    ELSE LET t == Head(text)
             pieces == IF TokenHasInnerDash(t) THEN DashPieces(t) ELSE <<t>>
         IN  IF TokenEndsWithDash(t) /\ Tail(text) = <<>> THEN pieces \o <<0>>
             ELSE pieces \o insertSpaceAfterDash(Tail(text))

\* textContent.split('\n'): the pieces between the line breaks.
RECURSIVE splitTextIntoParagraphs(_)
splitTextIntoParagraphs(text) ==
    LET breaks == {j \in 1..Len(text) : text[j] = NewLine}
        first == CHOOSE j \in breaks : \A m \in breaks : j <= m
    IN  IF breaks = {} THEN <<text>>
        ELSE <<SubSeq(text, 1, first - 1)>>
                 \o splitTextIntoParagraphs(SubSeq(text, first + 1, Len(text)))

\* /^(CHAPTER \d+\. )(.+)\./ : the greedy group runs to the last period of the
\* paragraph; what follows that period is not part of the match.
capitalizeChapterTitle(paragraph) ==
    LET periods == {j \in 3..Len(paragraph) : TokenEndsWithPeriod(paragraph[j])}
        last == CHOOSE j \in periods : \A m \in periods : m <= j
    IN  IF MatchesChapterStart(paragraph) /\ periods # {}
        THEN SubSeq(paragraph, 1, 2)
                 \o [j \in 1..(last - 2) |-> TokenToUpperCase(paragraph[j + 2])]
        ELSE paragraph

\* paragraph.split(/\s+/): runs of spaces separate the words; a leading or a
\* trailing run leaves an empty word at that end.
SplitWhitespace(s) ==
    LET ws == NonEmptyWords(s)
    IN  IF ws = <<>> THEN (IF Len(s) = 1 THEN <<0>> ELSE <<0, 0>>)
        ELSE (IF s[1] = 0 THEN <<0>> ELSE <<>>) \o ws
                 \o (IF s[Len(s)] = 0 THEN <<0>> ELSE <<>>)

\* width of the page: textMaxWidth = width - 2 * margin
PageWidth == textMaxWidth + 2 * margin

\* ----------------------------------------------------------- addPageNumbers

pageNumberFontSize == 10
\* margin / 1.25
pageNumberMargin == (margin * 4) \div 5

\* `${pageNumber}`: the decimal digits of the number
RECURSIVE ToDecimal(_)
ToDecimal(n) == IF n < 10 THEN <<n>> ELSE ToDecimal(n \div 10) \o <<n % 10>>

\* Advance width of a digit in half-ems of the font (font metrics input).
DigitAdvance(d) == 1

RECURSIVE SumDigitAdvance(_)
SumDigitAdvance(ds) ==
    IF ds = <<>> THEN 0 ELSE DigitAdvance(Head(ds)) + SumDigitAdvance(Tail(ds))

\* pageNumberFont.widthOfTextAtSize(pageNumberText, pageNumberFontSize)
widthOfPageNumber(ds) == (SumDigitAdvance(ds) * pageNumberFontSize) \div 2

\* The document: its pages, what drawTextLines put on them, and what
\* addPageNumbers drew on them.
Document == [pages |-> page, placed |-> placed, overlay |-> overlay]

\* addPageNumber wiping the page before it draws the number on it.
addPageNumberWipesPage(doc, k) ==
    LET pageNumberText == ToDecimal(k + 1)
        pageNumberWidth == widthOfPageNumber(pageNumberText)
        Kept(entry) == entry.page # k + 1
    IN  [doc EXCEPT !.placed = SelectSeq(@, Kept),
                    !.overlay = Append(@,
            <<[op |-> "drawText", text |-> pageNumberText,
               x |-> [num |-> PageWidth - pageNumberWidth, den |-> 2],
               y |-> pageNumberMargin, width |-> pageNumberWidth,
               height |-> [num |-> pageNumberFontSize, den |-> 1]],
              [op |-> "drawRectangle", text |-> <<>>,
               x |-> [num |-> PageWidth - pageNumberWidth - 2 * 5, den |-> 2],
               y |-> pageNumberMargin + pageNumberFontSize + 5,
               width |-> pageNumberWidth + 10, height |-> [num |-> 1, den |-> 2]]>>)]

\* addPageNumber numbering the pages from 0.
addPageNumberFromZero(doc, k) ==
    LET pageNumberText == ToDecimal(k)
        pageNumberWidth == widthOfPageNumber(pageNumberText)
    IN  [doc EXCEPT !.overlay = Append(@,
            <<[op |-> "drawText", text |-> pageNumberText,
               x |-> [num |-> PageWidth - pageNumberWidth, den |-> 2],
               y |-> pageNumberMargin, width |-> pageNumberWidth,
               height |-> [num |-> pageNumberFontSize, den |-> 1]],
              [op |-> "drawRectangle", text |-> <<>>,
               x |-> [num |-> PageWidth - pageNumberWidth - 2 * 5, den |-> 2],
               y |-> pageNumberMargin + pageNumberFontSize + 5,
               width |-> pageNumberWidth + 10, height |-> [num |-> 1, den |-> 2]]>>)]

\* The body of the loop of addPageNumbers for page k (0-based): the number,
\* centered, and the rule above it.
addPageNumber(doc, k) ==
    LET pageNumber == k + 1
        pageNumberText == ToDecimal(pageNumber)
        pageNumberWidth == widthOfPageNumber(pageNumberText)
        pageNumberX == [num |-> PageWidth - pageNumberWidth, den |-> 2]
        pageNumberY == pageNumberMargin
        lineX == [num |-> PageWidth - pageNumberWidth - 2 * 5, den |-> 2]
        lineY == pageNumberY + pageNumberFontSize + 5
    IN  [doc EXCEPT !.overlay = Append(@,
            <<[op |-> "drawText", text |-> pageNumberText, x |-> pageNumberX,
               y |-> pageNumberY, width |-> pageNumberWidth,
               height |-> [num |-> pageNumberFontSize, den |-> 1]],
              [op |-> "drawRectangle", text |-> <<>>, x |-> lineX, y |-> lineY,
               width |-> pageNumberWidth + 10, height |-> [num |-> 1, den |-> 2]]>>)]

\* ------------------------------------------------------ createPDF, the steps

\* createPDF has created the document and added its first page; textContent
\* is what example.txt holds.
InitPDF ==
    /\ textContent \in TextContents
    /\ textMaxWidth \in PDFTextMaxWidths
    /\ pageHeight \in PageHeights
    /\ pc = "loadFont"
    /\ capitalizedParagraphs = <<>>
    /\ paragraphsAsWordArrays = <<>>
    /\ p = 0
    /\ i = 0
    /\ currentLine = EmptyString
    /\ isFirstLineOfParagraph = TRUE
    /\ lines = <<>>
    /\ isLastLine = <<>>
    /\ isFirstLine = <<>>
    /\ greedyLines = <<>>
    /\ lineParagraph = <<>>
    /\ newChapterIndices = {}
    /\ overlay = <<>>
    /\ steps = <<>>
    /\ pdfBytes = <<>>
    /\ written = <<>>
    /\ DrawStart

\* await loadFont(pdfDoc) resolves.
LoadFont ==
    /\ pc = "loadFont"
    /\ steps' = Append(steps, "loadFont")
    /\ pc' = "readFile"
    /\ UNCHANGED <<lineVars, streamVars, drawVars, textContent, capitalizedParagraphs,
                   overlay, pdfBytes, written, textMaxWidth, i>>

\* await readFile(...) resolves with the text.
ReadFile ==
    /\ pc = "readFile"
    /\ steps' = Append(steps, "readFile")
    /\ pc' = "createPDF"
    /\ UNCHANGED <<lineVars, streamVars, drawVars, textContent, capitalizedParagraphs,
                   overlay, pdfBytes, written, textMaxWidth, i>>

\* Dashes, paragraphs, chapter titles in capitals, words; createLines is called.
PrepareParagraphs ==
    /\ pc = "createPDF"
    /\ LET textContentNoDashes == insertSpaceAfterDash(textContent)
           paragraphs == splitTextIntoParagraphs(textContentNoDashes)
           capitalized == [k \in 1..Len(paragraphs) |-> capitalizeChapterTitle(paragraphs[k])]
       IN  /\ capitalizedParagraphs' = capitalized
           /\ paragraphsAsWordArrays' =
                 [k \in 1..Len(capitalized) |-> SplitWhitespace(capitalized[k])]
    /\ steps' = Append(steps, "createLines")
    /\ pc' = "createLines"
    /\ UNCHANGED <<p, i, currentLine, isFirstLineOfParagraph, greedyLines, lineParagraph,
                   streamVars, drawVars, textContent, overlay, pdfBytes, written,
                   textMaxWidth>>

\* createLines has returned: the chapter indices, and drawTextLines is called.
StartDrawTextLines ==
    /\ pc = "linesDone"
    /\ newChapterIndices' = getNewChapterIndices(lines)
    /\ steps' = Append(steps, "drawTextLines")
    /\ pc' = "drawTextLines"
    /\ i' = 0
    /\ UNCHANGED <<lineVars, streamVars, pageHeight, page, yPos, remainingSpace, lineIndex,
                   colonEncountered, afterColonLineIndex, lastLineOfParagraph,
                   remainingLinesInParagraph, placed, textContent, capitalizedParagraphs,
                   overlay, pdfBytes, written, textMaxWidth>>

\* One iteration of the loop of addPageNumbers, over the pages of the document;
\* the first one begins the call.
AddPageNumber ==
    /\ pc = "drawDone"
    /\ Len(overlay) < page
    /\ LET doc == addPageNumber(Document, Len(overlay))
       IN  /\ page' = doc.pages
           /\ placed' = doc.placed
           /\ overlay' = doc.overlay
    /\ steps' = IF overlay = <<>> THEN Append(steps, "addPageNumbers") ELSE steps
    /\ UNCHANGED <<lineVars, streamVars, pageHeight, newChapterIndices, yPos, remainingSpace,
                   lineIndex, colonEncountered, afterColonLineIndex, lastLineOfParagraph,
                   remainingLinesInParagraph, textContent, capitalizedParagraphs,
                   pdfBytes, written, textMaxWidth, pc, i>>

\* SavePDF not waiting for addPageNumbers.
SavePDFBeforeNumbers ==
    /\ pc = "drawDone"
    /\ steps' = Append(steps, "save")
    /\ pdfBytes' = <<Document>>
    /\ pc' = "saved"
    /\ UNCHANGED <<lineVars, streamVars, drawVars, textContent, capitalizedParagraphs,
                   overlay, written, textMaxWidth, i>>

\* Every page is numbered: await pdfDoc.save() resolves with the document.
SavePDF ==
    /\ pc = "drawDone"
    /\ Len(overlay) = page
    /\ steps' = Append(steps, "save")
    /\ pdfBytes' = <<Document>>
    /\ pc' = "saved"
    /\ UNCHANGED <<lineVars, streamVars, drawVars, textContent, capitalizedParagraphs,
                   overlay, written, textMaxWidth, i>>

\* await writeFile(outputPath, pdfBytes) resolves; createPDF returns.
WriteFile ==
    /\ pc = "saved"
    /\ steps' = Append(steps, "writeFile")
    /\ written' = Append(written, pdfBytes[1])
    /\ pc' = "written"
    /\ UNCHANGED <<lineVars, streamVars, drawVars, textContent, capitalizedParagraphs,
                   overlay, pdfBytes, textMaxWidth, i>>

\* The steps of createPDF that call out and can throw: the awaited calls, and
\* the font's measuring and the page's drawing inside the layout.
FailingSteps == {"loadFont", "readFile", "createLines", "drawTextLines", "save", "writeFile"}

\* The step is about to make its call.
AtCall(step) ==
    CASE step = "loadFont" -> pc = "loadFont"
      [] step = "readFile" -> pc = "readFile"
      [] step = "createLines" ->
            /\ pc = "createLines"
            /\ p < Len(paragraphsAsWordArrays)
            /\ i < Len(paragraphsAsWordArrays[p + 1])
      [] step = "drawTextLines" ->
            pc = "drawTextLines" /\ i < Len(lines) /\ lines[i + 1] # EmptyString
      [] step = "save" -> pc = "drawDone" /\ Len(overlay) = page
      [] step = "writeFile" -> pc = "saved"

RunFailsButWrites ==
    /\ \E step \in FailingSteps :
          /\ AtCall(step)
          /\ steps' = IF step \in {"createLines", "drawTextLines"} THEN steps
                      ELSE Append(steps, step)
    /\ pc' = "failed"
    /\ written' = Append(written, Document)
    /\ UNCHANGED <<lineVars, streamVars, drawVars, textContent, capitalizedParagraphs,
                   overlay, pdfBytes, textMaxWidth, i>>

\* A call throws: createPDF has no try/catch, its promise rejects and nothing
\* of it runs any more.
RunFails ==
    /\ \E step \in FailingSteps :
          /\ AtCall(step)
          /\ steps' = IF step \in {"createLines", "drawTextLines"} THEN steps
                      ELSE Append(steps, step)
    /\ pc' = "failed"
    /\ UNCHANGED <<lineVars, streamVars, drawVars, textContent, capitalizedParagraphs,
                   overlay, pdfBytes, written, textMaxWidth, i>>

NextPDF ==
    \/ LoadFont \/ ReadFile
    \/ PrepareParagraphs
    \/ AddWord \/ EndParagraph \/ HandleOrphans
    \/ StartDrawTextLines
    \/ DrawTextLine \/ ReturnPage
    \/ AddPageNumber
    \/ SavePDF
    \/ WriteFile
    \/ RunFails

SpecPDF == InitPDF /\ [][NextPDF]_vars

\* ------------------------------------------------- claims about createLines

LinesDone == pc = "linesDone"

\* The indices (1-based) of the lines pushed for paragraph k (0-based).
LinesOf(k) == {j \in 1..Len(lines) : lineParagraph[j] = k}

\* The texts of the lines of paragraph k, in line order.
RECURSIVE TextOfLines(_, _, _)
TextOfLines(ls, k, j) ==
    IF j > Len(ls) THEN <<>>
    ELSE (IF lineParagraph[j] = k THEN ls[j] ELSE <<>>) \o TextOfLines(ls, k, j + 1)

WordCount(s) == Len(NonEmptyWords(s))

\* C1: orphan correction never crosses a paragraph boundary: when createLines
\* returns, the lines of each paragraph hold exactly that paragraph's input
\* words in order, and a line that is both first and last line of its
\* paragraph has the text it had before correction.
C1_OrphansStayInParagraph ==
    LinesDone =>
        /\ \A k \in 0..(Len(paragraphsAsWordArrays) - 1) :
              NonEmptyWords(TextOfLines(lines, k, 1))
                  = NonEmptyWords(paragraphsAsWordArrays[k + 1])
        /\ \A j \in 1..Len(lines) :
              isFirstLine[j] /\ isLastLine[j] => lines[j] = greedyLines[j]

\* C2: orphan invariant: when createLines returns, the line flagged isLastLine
\* of every paragraph that produced at least two lines has at least two words.
C2_NoOrphanLastLine ==
    LinesDone =>
        \A k \in 0..(Len(paragraphsAsWordArrays) - 1) :
            Cardinality(LinesOf(k)) >= 2 =>
                \A j \in LinesOf(k) : isLastLine[j] => WordCount(lines[j]) >= 2

\* C3: word-order preservation: the words of the lines pushed so far followed
\* by the words of the buffer are the non-empty input words consumed so far,
\* and when createLines returns (after orphan correction) the words of all
\* lines are the non-empty input words of all paragraphs, in order.
ConsumedWords ==
    Flatten(SubSeq(paragraphsAsWordArrays, 1, p))
        \o (IF p < Len(paragraphsAsWordArrays)
            THEN SubSeq(paragraphsAsWordArrays[p + 1], 1, i) ELSE <<>>)

C3_WordOrderPreserved ==
    /\ pc = "createLines" =>
          NonEmptyWords(Flatten(lines) \o currentLine) = NonEmptyWords(ConsumedWords)
    /\ LinesDone =>
          NonEmptyWords(Flatten(lines)) = NonEmptyWords(Flatten(paragraphsAsWordArrays))

\* C3 witness: createLines returned lines of two paragraphs of different
\* words, and orphan correction moved a word.
C3_Witness ==
    /\ LinesDone
    /\ lines # greedyLines
    /\ Len(paragraphsAsWordArrays) = 2
    /\ \E j \in 1..Len(lines) : \E a, b \in 1..Len(lines[j]) :
          lines[j][a] # 0 /\ lines[j][b] # 0 /\ lines[j][a] # lines[j][b]

\* ----------------------------------------------- claims about drawTextLines

\* The entry of placed for line k (0-based); the lines are placed in order.
PlacedLine(k) == placed[k + 1]
IsPlaced(k) == k < Len(placed)

\* The index of the isLastLine line that closes the paragraph starting at f.
ParagraphEnd(f) ==
    CHOOSE l \in f..(Len(lines) - 1) :
        isLastLine[l + 1] /\ \A m \in f..(l - 1) : ~isLastLine[m + 1]

ParagraphStarts == {f \in 0..(Len(lines) - 1) : isFirstLine[f + 1]}

\* C4: a short paragraph is never split across pages: all lines of a
\* paragraph of at most 3 lines are placed on the same page.
C4_ShortParagraphNotSplit ==
    \A f \in ParagraphStarts :
        LET l == ParagraphEnd(f)
        IN  (l - f + 1 <= 3 /\ IsPlaced(l)) =>
                \A k \in f..l : PlacedLine(k).page = PlacedLine(f).page

\* C5: widow avoidance: the page that receives the first line of a paragraph
\* of more than 3 lines also receives its second and third line.
C5_FirstThreeLinesTogether ==
    \A f \in ParagraphStarts :
        (ParagraphEnd(f) - f + 1 > 3 /\ IsPlaced(f + 2)) =>
            /\ PlacedLine(f + 1).page = PlacedLine(f).page
            /\ PlacedLine(f + 2).page = PlacedLine(f).page

\* C6: chapter invariant: a line whose index is in newChapterIndices is placed
\* on a page started for it: at the top of a page that is not the page of the
\* line before it, with the whole text height still free.
C6_ChapterStartsPage ==
    \A k \in newChapterIndices :
        IsPlaced(k) =>
            /\ PlacedLine(k).yPos = pageHeight - margin
            /\ PlacedLine(k).remainingSpace = pageHeight - 2 * margin
            /\ PlacedLine(k).page > 1
            /\ k > 0 => PlacedLine(k - 1).page < PlacedLine(k).page

\* C6 witness: a one-line chapter heading was placed right after a one-line
\* paragraph that left four line-heights free on its page, so that only the
\* chapter rule can have started the new page.
C6_Witness ==
    \E k \in newChapterIndices :
        /\ k > 0
        /\ IsPlaced(k)
        /\ isLastLine[k + 1]
        /\ lines[k] = <<1, 1>>
        /\ PlacedLine(k - 1).remainingSpace = 5 * lineHeight
        /\ PlacedLine(k).page = PlacedLine(k - 1).page + 1

\* The text drawn by a sequence of drawText calls, pieces joined by ' '.
DrawnText(calls) == Flatten([j \in 1..Len(calls) |-> calls[j].text])

\* C7: order invariant: the lines are placed in increasing index order with
\* none skipped, each on the page of the line before it or a later one and,
\* on the same page, below it; what is drawn for a line is its text; when
\* drawTextLines returns every line has been placed.
C7_OrderPreserved ==
    /\ \A j \in 1..Len(placed) :
          /\ placed[j].index = j - 1
          /\ (lines[j] # EmptyString => DrawnText(placed[j].calls) = lines[j])
          /\ (lines[j] = EmptyString => placed[j].calls = <<>>)
    /\ \A j \in 2..Len(placed) :
          \/ placed[j].page > placed[j - 1].page
          \/ placed[j].page = placed[j - 1].page /\ placed[j].yPos < placed[j - 1].yPos
    /\ page >= (IF placed = <<>> THEN 1 ELSE placed[Len(placed)].page)
    /\ pc = "drawDone" => Len(placed) = Len(lines)

\* C7 witness: drawTextLines returned after placing a stream with a break
\* marker and a justified line on more than one page, two lines sharing a page.
C7_Witness ==
    /\ pc = "drawDone"
    /\ Len(placed) >= 4
    /\ \E j \in 2..Len(placed) : placed[j].page > placed[j - 1].page
    /\ \E j \in 2..Len(placed) : placed[j].page = placed[j - 1].page
    /\ \E j \in 1..Len(placed) : lines[j] = EmptyString
    /\ \E j \in 1..Len(placed) : Len(placed[j].calls) >= 2

\* C8: minimum-space invariant: a line is drawn, and a break marker consumed,
\* only with at least one line-height left, so its baseline lies between
\* margin + lineHeight and pageHeight - margin.
C8_DrawnWithinMargins ==
    \A j \in 1..Len(placed) :
        /\ placed[j].remainingSpace >= lineHeight
        /\ placed[j].yPos >= margin + lineHeight
        /\ placed[j].yPos <= pageHeight - margin
        /\ \A c \in 1..Len(placed[j].calls) : placed[j].calls[c].y = placed[j].yPos

\* C8 witness: a plain line was drawn with exactly one line-height left, and
\* the break marker after it, which starts no chapter and is in no paragraph,
\* found no space left and was moved to a new page.
C8_Witness ==
    \E j \in 2..Len(placed) :
        /\ lines[j] = EmptyString
        /\ lines[j - 1] = <<1, 1>>
        /\ \A m \in 1..j : lines[m] \in {EmptyString, <<1, 1>>}
        /\ placed[j - 1].remainingSpace = lineHeight
        /\ placed[j].page = placed[j - 1].page + 1

\* C9: scenario C: a line ending in ':' followed by a break marker and then by
\* the first line of a paragraph, all on one page: the paragraph's first
\* baseline is lineHeight + lineHeight + paragraphBreakHeight below the
\* baseline of the colon line.
C9_ColonGapChargedOnce ==
    \A k \in 0..(Len(lines) - 3) :
        ( /\ IsPlaced(k + 2)
          /\ lines[k + 1] # EmptyString /\ EndsWithColon(lines[k + 1])
          /\ lines[k + 2] = EmptyString
          /\ isFirstLine[k + 3]
          /\ PlacedLine(k + 1).page = PlacedLine(k).page
          /\ PlacedLine(k + 2).page = PlacedLine(k).page )
        => PlacedLine(k).yPos - PlacedLine(k + 2).yPos
               = lineHeight + lineHeight + paragraphBreakHeight

\* C10: width invariant: for every drawn line that is not a paragraph's last
\* line and has at least 2 words, the right edge of the last word (its x plus
\* its width at the size it is drawn with) is the x-origin plus the
\* available width.
C10_JustifiedToAvailableWidth ==
    \A j \in 1..Len(placed) :
        (lines[j] # EmptyString /\ ~isLastLine[j] /\ WordCount(lines[j]) >= 2) =>
            LET calls == placed[j].calls
                last == calls[Len(calls)]
                indented == isFirstLine[j] /\ ~IsChapterTitle(j - 1)
                origin == IF indented THEN margin + indentationWidth ELSE margin
                availableWidth == IF indented THEN textMaxWidth - indentationWidth
                                  ELSE textMaxWidth
            IN  last.x.num + last.x.den * widthOfTextAtSize(last.text, last.size)
                    = last.x.den * (origin + availableWidth)

\* The x-origin of line j (1-based): indented for a first line that is no
\* chapter title.
XOrigin(j) ==
    IF isFirstLine[j] /\ ~IsChapterTitle(j - 1) THEN margin + indentationWidth ELSE margin

\* C14: a paragraph's last line is never justified: every drawn line flagged
\* isLastLine is drawn by exactly one drawText call, whose text is the whole
\* line and whose x is the x-origin, whatever its word count or width.
C14_LastLineSingleRun ==
    \A j \in 1..Len(placed) :
        (lines[j] # EmptyString /\ isLastLine[j]) =>
            /\ Len(placed[j].calls) = 1
            /\ placed[j].calls[1].text = lines[j]
            /\ placed[j].calls[1].x = [num |-> XOrigin(j), den |-> 1]

\* C14 witness: a last line of three words that is not a first line, a last
\* line that is also a first line, and a justified line have been drawn.
C14_Witness ==
    /\ \E j \in 1..Len(placed) :
          isLastLine[j] /\ ~isFirstLine[j] /\ Len(lines[j]) = 3
              /\ placed[j].calls[1].x.num = margin
    /\ \E j \in 1..Len(placed) :
          isLastLine[j] /\ isFirstLine[j] /\ lines[j] = <<1, 1>>
              /\ placed[j].calls[1].x.num = margin + indentationWidth
    /\ \E j \in 1..Len(placed) : ~isLastLine[j] /\ Len(placed[j].calls) >= 2

\* drawTextLines is about to apply the page-break rules to line i, and the
\* chapter rule does not apply to it.
AboutToPlace ==
    /\ pc = "drawTextLines"
    /\ i < Len(lines)
    /\ ~(IsChapterTitle(i) \/ lineIndex \in newChapterIndices)

\* The space checks leave line i on the current page, at the current position.
NoPageBreak == PageBreakRules(Cursor, i) = Cursor

\* A paragraph of n <= 3 lines starts with remainingSpace = n * lineHeight, or
\* a paragraph of more than 3 lines starts with remainingSpace = 3 * lineHeight.
ParagraphStartsAtThreshold ==
    /\ isFirstLine[i + 1]
    /\ \/ RemainingLinesAt(i) \in 1..3 /\ remainingSpace = RemainingLinesAt(i) * lineHeight
       \/ RemainingLinesAt(i) > 3 /\ remainingSpace = 3 * lineHeight

WellFormedHeading(s) == MatchesChapterStart(s) /\ TokenEndsWithPeriod(s[Len(s)])

\* C11: malformed headings degrade to ordinary text: a line that is not of
\* the form 'CHAPTER <digits>. <title>.' (no trailing period, or a chapter id
\* that is not a number) is not in newChapterIndices, is no chapter title for
\* the page-break rule, and is not drawn at chapterTitleFontSize.
C11_MalformedHeadingIsOrdinaryText ==
    \A k \in 0..(Len(lines) - 1) :
        ~WellFormedHeading(lines[k + 1]) =>
            /\ k \notin newChapterIndices
            /\ ~IsChapterTitle(k)
            /\ IsPlaced(k) =>
                  \A c \in 1..Len(PlacedLine(k).calls) :
                      PlacedLine(k).calls[c].size # chapterTitleFontSize

\* The paragraphs handed to capitalizeChapterTitle.
Paragraphs == splitTextIntoParagraphs(insertSpaceAfterDash(textContent))

\* C12: capitalizeChapterTitle returns unchanged every paragraph that is not
\* of the form 'CHAPTER <digits>. <title>.'; a paragraph that does not end
\* with a period comes back with no text upper-cased or dropped.
C12_OnlyExactHeadingsCapitalized ==
    capitalizedParagraphs # <<>> =>
        \A k \in 1..Len(Paragraphs) :
            ~WellFormedHeading(Paragraphs[k]) => capitalizedParagraphs[k] = Paragraphs[k]

\* createLines has returned in createPDF.
LinesReturned == pc \in {"linesDone", "drawTextLines", "drawDone", "saved", "written"}

\* C13: blank-line markers: for an empty line of the text between two
\* paragraphs with words, the line stream createLines returns holds an
\* empty-text line after the lines of the paragraphs before it and before the
\* lines of the paragraphs after it, as it was before orphan correction.
C13_BlankLineMarkerEmitted ==
    LinesReturned =>
        \A k \in 2..(Len(Paragraphs) - 1) :
            ( /\ Paragraphs[k] = EmptyString
              /\ NonEmptyWords(Paragraphs[k - 1]) # <<>>
              /\ NonEmptyWords(Paragraphs[k + 1]) # <<>> )
            => \E j \in 1..Len(lines) :
                  /\ lines[j] = EmptyString
                  /\ greedyLines[j] = EmptyString
                  /\ \A m \in 1..(j - 1) : lineParagraph[m] < k - 1
                  /\ \A m \in (j + 1)..Len(lines) : lineParagraph[m] > k - 1

\* Paragraph k (1-based) of the text is a heading 'CHAPTER <n>. <title>.'
\* that fits on one line once its title is in capitals.
OneLineHeading(k) ==
    /\ WellFormedHeading(Paragraphs[k])
    /\ widthOfTextAtSize(capitalizeChapterTitle(Paragraphs[k]), fontSize)
           <= textMaxWidth - parIndentWidth

\* The heading with its title in capitals.
TitleInCapitals(s) == [j \in 1..Len(s) |-> IF j <= 2 THEN s[j] ELSE TokenToUpperCase(s[j])]

\* C15: scenario A: a heading paragraph that fits on one line is normalized
\* to the same heading with the title in capitals, becomes exactly one line
\* flagged first and last, whose index is a chapter start, and is placed at the
\* top of a fresh page as one drawText call at chapterTitleFontSize, x = margin.
C15_OneLineHeading ==
    \A k \in 1..Len(Paragraphs) :
        OneLineHeading(k) =>
            /\ capitalizedParagraphs # <<>> =>
                  capitalizedParagraphs[k] = TitleInCapitals(Paragraphs[k])
            /\ LinesReturned =>
                  /\ Cardinality(LinesOf(k - 1)) = 1
                  /\ \A j \in LinesOf(k - 1) :
                        /\ lines[j] = TitleInCapitals(Paragraphs[k])
                        /\ isFirstLine[j] /\ isLastLine[j]
                        /\ pc # "linesDone" => (j - 1) \in newChapterIndices
                        /\ IsPlaced(j - 1) =>
                              /\ placed[j].yPos = pageHeight - margin
                              /\ placed[j].remainingSpace = pageHeight - 2 * margin
                              /\ placed[j].page > 1
                              /\ j > 1 => placed[j].page > placed[j - 1].page
                              /\ Len(placed[j].calls) = 1
                              /\ placed[j].calls[1].text = lines[j]
                              /\ placed[j].calls[1].size = chapterTitleFontSize
                              /\ placed[j].calls[1].x = [num |-> margin, den |-> 1]

\* The number written by a sequence of decimal digits.
RECURSIVE DecimalValue(_)
DecimalValue(ds) ==
    IF ds = <<>> THEN 0
    ELSE 10 * DecimalValue(SubSeq(ds, 1, Len(ds) - 1)) + ds[Len(ds)]

\* The draw operations of kind op that addPageNumbers made on page k (0-based).
OverlayOps(k, op) == {c \in 1..Len(overlay[k + 1]) : overlay[k + 1][c].op = op}

\* The lines drawTextLines placed on page n (1-based).
LinesOnPage(n) == {j \in 1..Len(placed) : placed[j].page = n}

\* C16: page numbering: every page that addPageNumbers has visited carries
\* exactly one page-number text, which reads k + 1 for the page at position k,
\* and exactly one rule; when the document is saved every page has been
\* visited, whatever drawTextLines placed on it.
C16_EveryPageNumberedOnce ==
    /\ Len(overlay) <= page
    /\ \A k \in 0..(Len(overlay) - 1) :
          /\ Cardinality(OverlayOps(k, "drawText")) = 1
          /\ Cardinality(OverlayOps(k, "drawRectangle")) = 1
          /\ \A c \in OverlayOps(k, "drawText") :
                DecimalValue(overlay[k + 1][c].text) = k + 1
    /\ pc = "saved" => Len(overlay) = page

\* C16 witness: a saved document of at least three pages, one of them without
\* any line and one with two lines, all numbered.
C16_Witness ==
    /\ pc = "saved"
    /\ page >= 3
    /\ Len(overlay) = page
    /\ \E n \in 1..page : LinesOnPage(n) = {}
    /\ \E n \in 1..page : Cardinality(LinesOnPage(n)) >= 2
    /\ DecimalValue(overlay[3][1].text) = 3

\* C17: the numbering pass only adds an overlay: no step taken once
\* drawTextLines has returned changes the number of pages, or what
\* drawTextLines placed on the pages and in which order, or what was already
\* drawn over a page; it only draws over the next page.
C17_NumberingOnlyAddsOverlay ==
    [][pc = "drawDone" =>
          /\ page' = page
          /\ placed' = placed
          /\ Len(overlay') >= Len(overlay)
          /\ SubSeq(overlay', 1, Len(overlay)) = overlay]_vars

\* C17 witness: the pass has numbered a page that holds lines and has another
\* page with lines still to number.
C17_Witness ==
    /\ pc = "drawDone"
    /\ Len(overlay) >= 1
    /\ Len(overlay) < page
    /\ LinesOnPage(1) # {}
    /\ LinesOnPage(page) # {}

\* C18: zero-gap justification: a drawn line of exactly one word that is not
\* a paragraph's last line is drawn by one drawText call, the word at the
\* x-origin: nothing is divided by the gap count 0 and no width is added.
C18_SingleWordLineAtOrigin ==
    \A j \in 1..Len(placed) :
        (lines[j] # EmptyString /\ ~isLastLine[j] /\ Len(lines[j]) = 1) =>
            /\ Len(placed[j].calls) = 1
            /\ placed[j].calls[1].text = lines[j]
            /\ placed[j].calls[1].x = [num |-> XOrigin(j), den |-> 1]

\* C18 witness: a one-word line that is not a last line has been drawn as a
\* first line, at the indent, and another as a continuation line, at the margin.
C18_Witness ==
    /\ \E j \in 1..Len(placed) :
          /\ ~isLastLine[j] /\ isFirstLine[j] /\ lines[j] = <<1>>
          /\ placed[j].calls[1].x.num = margin + indentationWidth
    /\ \E j \in 1..Len(placed) :
          /\ ~isLastLine[j] /\ ~isFirstLine[j] /\ lines[j] = <<2>>
          /\ placed[j].calls[1].x.num = margin

\* The input text has no word: it holds nothing but spaces and line breaks.
NoWords == \A j \in 1..Len(textContent) : textContent[j] \in {0, NewLine}

\* Some step of createPDF can be taken (PrepareParagraphs waits for nothing
\* but its turn).
RunCanContinue ==
    \/ pc = "loadFont" /\ ENABLED LoadFont
    \/ pc = "readFile" /\ ENABLED ReadFile
    \/ pc = "createPDF"
    \/ pc = "createLines" /\ ENABLED (AddWord \/ EndParagraph \/ HandleOrphans)
    \/ pc = "linesDone" /\ ENABLED StartDrawTextLines
    \/ pc = "drawTextLines" /\ ENABLED (DrawTextLine \/ ReturnPage)
    \/ pc = "drawDone" /\ ENABLED (AddPageNumber \/ SavePDF)
    \/ pc = "saved" /\ ENABLED WriteFile

\* C20: empty input: with no word in the text createLines returns no line,
\* drawTextLines draws nothing and starts no page, the run never stops before
\* the document is written unless a call to the font or the file system
\* throws, and no page of the document holds a line of text.
C20_EmptyInputIsValid ==
    NoWords =>
        /\ lines = <<>>
        /\ placed = <<>>
        /\ page = 1
        /\ \A n \in 1..page : LinesOnPage(n) = {}
        /\ pc \notin {"written", "failed"} => RunCanContinue
        /\ pc = "failed" => steps[Len(steps)] # "drawTextLines"

\* C20 witness: the document of the empty text and of a text of blank lines
\* has been saved with its one page, numbered and without any line.
C20_Witness ==
    /\ NoWords
    /\ textContent \in {EmptyString, <<0, NewLine, 0, 0>>}
    /\ pc = "written"
    /\ Len(overlay) = 1
    /\ placed = <<>>


\* ---------------------------------------------------------------------------
\* C21
\* ---------------------------------------------------------------------------

\* The steps of a run of createPDF, in the order of the code.
RunOrder ==
    <<"loadFont", "readFile", "createLines", "drawTextLines", "addPageNumbers", "save",
      "writeFile">>

\* The document holds every line of the text and a number on every page.
CompleteDocument(doc) ==
    /\ Len(doc.placed) = Len(lines)
    /\ Len(doc.overlay) = doc.pages

C21_FailedRunWritesNothing ==
    /\ Len(steps) <= Len(RunOrder)
    /\ steps = SubSeq(RunOrder, 1, Len(steps))
    /\ pc = "failed" => written = <<>>
    /\ Len(written) <= 1
    /\ \A k \in 1..Len(written) : pc = "written" /\ CompleteDocument(written[k])

\* C21: failures are fatal with no partial output: when loading the font,
\* reading the input, the layout or saving fails, no later step of the run
\* executes (the failed run takes no step at all), writeFile is never called
\* with a partial document (it is called at most once, by a run that did not
\* fail, with the complete document), and no step is retried (the steps begun
\* are a prefix of the order of the code, each once).
C21_FailuresAreFatal ==
    [](C21_FailedRunWritesNothing) /\ [][pc # "failed"]_vars

C21_Witness ==
    /\ pc = "failed"
    /\ steps = SubSeq(RunOrder, 1, 6)
    /\ Len(placed) > 1
    /\ written = <<>>

\* ---------------------------------------------------------------------------
\* insertSpaceAfterDash applied again and again to a text
\* ---------------------------------------------------------------------------

MaxDashTextLen == 3

\* "", "aa", "AA—AA", "AA—", "AA——AA", "—", "AA——" and the line break
DashTokens == {0, 1, 10, 11, 13, 14, 15, NewLine}

DashTexts == UNION {[1..n -> DashTokens] : n \in 1..MaxDashTextLen}

InitDash ==
    /\ textContent \in DashTexts
    /\ pc = "text"
    /\ textMaxWidth \in PDFTextMaxWidths
    /\ pageHeight \in PageHeights
    /\ paragraphsAsWordArrays = <<>>
    /\ p = 0
    /\ i = 0
    /\ currentLine = EmptyString
    /\ isFirstLineOfParagraph = TRUE
    /\ lines = <<>>
    /\ isLastLine = <<>>
    /\ isFirstLine = <<>>
    /\ greedyLines = <<>>
    /\ lineParagraph = <<>>
    /\ newChapterIndices = {}
    /\ capitalizedParagraphs = <<>>
    /\ overlay = <<>>
    /\ steps = <<>>
    /\ pdfBytes = <<>>
    /\ written = <<>>
    /\ DrawStart

\* textContent = insertSpaceAfterDash(textContent), a first and a second time.
InsertSpaceAfterDash ==
    /\ pc \in {"text", "dashed"}
    /\ textContent' = insertSpaceAfterDash(textContent)
    /\ pc' = IF pc = "text" THEN "dashed" ELSE "dashedTwice"
    /\ UNCHANGED <<lineVars, streamVars, drawVars, capitalizedParagraphs, overlay,
                   runVars, textMaxWidth, i>>

NextDash == InsertSpaceAfterDash

SpecDash == InitDash /\ [][NextDash]_vars

\* ---------------------------------------------------------------------------
\* C22
\* ---------------------------------------------------------------------------

\* C22: insertSpaceAfterDash is idempotent: applied to its own result, for
\* every text (texts with consecutive dashes or a dash as last character too),
\* it returns that result unchanged.
C22_InsertSpaceAfterDashIdempotent ==
    [][pc = "dashed" => textContent' = textContent]_vars

\* "AA——" normalized to "AA— — " and normalized again
C22_Witness ==
    /\ pc = "dashedTwice"
    /\ textContent = <<11, 14, 0>>

\* ---------------------------------------------------------------------------
\* C23
\* ---------------------------------------------------------------------------

\* The first line pushed for the paragraph of line j (1-based).
FirstLineOfItsParagraph(j) == j = 1 \/ lineParagraph[j - 1] # lineParagraph[j]

\* C23: over-wide word tie-break: a word wider than textMaxWidth is pushed as
\* a line of exactly that word, and the width check never flushes an empty
\* buffer: when the first word of a paragraph is wider than the paragraph's
\* first line, the first line pushed for that paragraph is not empty, begins
\* with that word and is flagged isFirstLine.
C23_OverWideWordKeepsItsLine ==
    pc = "createLines" =>
        \A j \in 1..Len(lines) :
            LET words == paragraphsAsWordArrays[lineParagraph[j] + 1]
            IN  /\ \A m \in 1..Len(lines[j]) :
                      widthOfTextAtSize(<<lines[j][m]>>, fontSize) > textMaxWidth
                          => lines[j] = <<lines[j][m]>>
                /\ (/\ FirstLineOfItsParagraph(j)
                    /\ widthOfTextAtSize(<<words[1]>>, fontSize) > textMaxWidth - parIndentWidth)
                      => /\ lines[j] # EmptyString
                         /\ lines[j][1] = words[1]
                         /\ isFirstLine[j]

\* ---------------------------------------------------------------------------
\* C24
\* ---------------------------------------------------------------------------

\* C24: orphan correction moves a word only when the previous line has at
\* least 2 words: handleOrphans never takes the only word of a line, so when
\* createLines returns no line that held a word before correction has empty
\* text.
C24_OrphanNeverTakesOnlyWord ==
    LinesDone =>
        \A j \in 1..Len(lines) :
            /\ WordCount(greedyLines[j]) >= 1 => WordCount(lines[j]) >= 1
            /\ WordCount(lines[j]) < WordCount(greedyLines[j])
                  => WordCount(greedyLines[j]) >= 2

\* ---------------------------------------------------------------------------
\* C25
\* ---------------------------------------------------------------------------

\* The width a line may take: the first line of a paragraph is indented.
UsableWidth(first) == IF first THEN textMaxWidth - parIndentWidth ELSE textMaxWidth

\* The buffer with the next word of the paragraph behind it.
LineIncludingNextWord ==
    LET word == paragraphsAsWordArrays[p + 1][i + 1]
    IN  IF currentLine # EmptyString THEN Append(currentLine, word) ELSE <<word>>

\* A step of the loop over the words: the word joins the buffer exactly when
\* the buffer with the word fits; otherwise the buffer is flushed as a
\* non-final line and the word begins the next one.
GreedyStep ==
    (pc = "createLines" /\ i' = i + 1) =>
        LET fits == widthOfTextAtSize(LineIncludingNextWord, fontSize)
                        <= UsableWidth(isFirstLineOfParagraph)
        IN  /\ fits <=> (currentLine' = LineIncludingNextWord /\ lines' = lines)
            /\ ~fits <=> /\ lines' = Append(lines, Trim(currentLine))
                         /\ isLastLine' = Append(isLastLine, FALSE)
                         /\ currentLine' = <<paragraphsAsWordArrays[p + 1][i + 1]>>

\* Before orphan correction every line of at least 2 words fits.
GreedyLinesFit ==
    pc = "createLines" =>
        /\ \A j \in 1..Len(lines) :
              Len(lines[j]) >= 2 =>
                  widthOfTextAtSize(lines[j], fontSize) <= UsableWidth(isFirstLine[j])
        /\ Len(currentLine) >= 2 =>
              widthOfTextAtSize(currentLine, fontSize) <= UsableWidth(isFirstLineOfParagraph)

\* C25: greedy wrapping: within each paragraph addWordToLine appends a word to
\* the current line exactly when the line including that word measures at most
\* the usable width (textMaxWidth - parIndentWidth while the paragraph's first
\* line is built, textMaxWidth afterwards); so, before orphan correction, every
\* line of at least 2 words fits its usable width, and a line is flushed as a
\* non-final line only when the next word would not have fit.
C25_GreedyWrapping ==
    [](GreedyLinesFit) /\ [][GreedyStep]_vars

\* "aa  aa" fills the first line exactly and the next word was flushed
C25_Witness ==
    /\ pc = "createLines"
    /\ textMaxWidth = 60
    /\ Len(lines) = 1
    /\ lines[1] = <<1, 0, 1>>
    /\ isFirstLine[1] /\ ~isLastLine[1]
    /\ widthOfTextAtSize(lines[1], fontSize) = UsableWidth(TRUE)
    /\ currentLine = <<1>>

\* ---------------------------------------------------------------------------
\* C26
\* ---------------------------------------------------------------------------

\* The lines as iteration k (0-based index of the loop of handleOrphans) finds
\* them: the lines createLines pushed, after the iterations before k.
RECURSIVE LinesBeforeCorrection(_)
LinesBeforeCorrection(k) ==
    IF k = 1 THEN greedyLines
    ELSE handleOrphan(LinesBeforeCorrection(k - 1), isLastLine, k - 1)

\* Iteration k leaves the lines alone or moves one word from line k - 1 to the
\* front of line k.
MovesOneWord(before, after, k) ==
    \/ after = before
    \/ LET previousLine == before[k]
           lastWord == previousLine[Len(previousLine)]
       IN  /\ Len(after) = Len(before)
           /\ \A j \in 1..Len(before) : j \notin {k, k + 1} => after[j] = before[j]
           /\ after[k] = Join(SubSeq(previousLine, 1, Len(previousLine) - 1))
           /\ after[k + 1] = <<lastWord>> \o before[k + 1]
           /\ WordCount(after[k + 1]) = WordCount(before[k + 1]) + 1
           /\ WordCount(after[k + 1]) >= 2
           /\ isLastLine[k + 1]

OrphanPassMovesOneWordEach ==
    LinesDone =>
        /\ \A k \in 1..(Len(greedyLines) - 1) :
              MovesOneWord(LinesBeforeCorrection(k),
                           handleOrphan(LinesBeforeCorrection(k), isLastLine, k), k)
        /\ lines = LinesBeforeCorrection(IF Len(greedyLines) = 0 THEN 1 ELSE Len(greedyLines))

OrphanPassKeepsFlags ==
    (pc = "createLines" /\ pc' = "linesDone") =>
        /\ Len(lines') = Len(lines)
        /\ isLastLine' = isLastLine
        /\ isFirstLine' = isFirstLine

\* C26: each orphan correction moves exactly one word and nothing else: the
\* line before loses exactly its last word, the corrected final line gains
\* that word at its front and ends with at least 2 words, and all other
\* lines, the number of lines and the isFirstLine/isLastLine flags are
\* unchanged.
C26_CorrectionMovesOneWord ==
    [](OrphanPassMovesOneWordEach) /\ [][OrphanPassKeepsFlags]_vars

\* 'aa aa' / 'aa' corrected to 'aa' / 'aa aa'
C26_Witness ==
    /\ LinesDone
    /\ greedyLines = <<<<1, 1>>, <<1>>>>
    /\ lines = <<<<1>>, <<1, 1>>>>
    /\ isLastLine = <<FALSE, TRUE>>

\* ---------------------------------------------------------------------------
\* C27
\* ---------------------------------------------------------------------------

\* C27: paragraph-position flags are well formed: createLines returns lines,
\* isFirstLine and isLastLine of equal length; for each paragraph with at
\* least one word, exactly its first emitted line has isFirstLine true and
\* exactly its last emitted line has isLastLine true (so the flags alternate
\* along the stream), and a paragraph emitted as one line has both flags true.
C27_FlagsWellFormed ==
    LinesDone =>
        /\ Len(isFirstLine) = Len(lines)
        /\ Len(isLastLine) = Len(lines)
        /\ \A k \in 0..(Len(paragraphsAsWordArrays) - 1) :
              NonEmptyWords(paragraphsAsWordArrays[k + 1]) # <<>> =>
                  /\ LinesOf(k) # {}
                  /\ \A j \in LinesOf(k) :
                        /\ isFirstLine[j] <=> \A m \in LinesOf(k) : j <= m
                        /\ isLastLine[j] <=> \A m \in LinesOf(k) : m <= j

\* ---------------------------------------------------------------------------
\* C28
\* ---------------------------------------------------------------------------

\* C28: lines still fit after orphan correction: when createLines returns,
\* every line of at least 2 words measures at most its usable width
\* (textMaxWidth - parIndentWidth for a line flagged isFirstLine, textMaxWidth
\* otherwise).
C28_LinesFitAfterCorrection ==
    LinesDone =>
        \A j \in 1..Len(lines) :
            WordCount(lines[j]) >= 2 =>
                widthOfTextAtSize(lines[j], fontSize) <= UsableWidth(isFirstLine[j])

\* ---------------------------------------------------------------------------
\* C29
\* ---------------------------------------------------------------------------

\* C29: chapter titles stay inside the text column: every chapter-title line
\* that fits its usable width as createLines measures it (at fontSize) is
\* drawn so that the right edge of each of its runs, measured at the size the
\* run is drawn with, does not exceed margin + textMaxWidth.
C29_ChapterTitleInsideColumn ==
    \A j \in 1..Len(placed) :
        (/\ lines[j] # EmptyString
         /\ IsChapterTitle(j - 1)
         /\ widthOfTextAtSize(lines[j], fontSize) <= UsableWidth(isFirstLine[j])) =>
            \A c \in 1..Len(placed[j].calls) :
                LET call == placed[j].calls[c]
                IN  call.x.num + call.x.den * widthOfTextAtSize(call.text, call.size)
                        <= call.x.den * (margin + textMaxWidth)

\* ---------------------------------------------------------------------------
\* C30
\* ---------------------------------------------------------------------------

\* C30: only the first line of a paragraph can start a chapter: for the lines
\* createLines returns, every index returned by getNewChapterIndices has
\* isFirstLine true; a continuation line of a wrapped paragraph is never drawn
\* as a chapter title (at chapterTitleFontSize) and never starts a fresh page
\* as one.
C30_OnlyFirstLinesStartChapters ==
    LinesReturned =>
        /\ \A k \in getNewChapterIndices(lines) : isFirstLine[k + 1]
        /\ \A j \in 1..Len(placed) :
              (lines[j] # EmptyString /\ ~isFirstLine[j]) =>
                  /\ \A c \in 1..Len(placed[j].calls) : placed[j].calls[c].size = fontSize
                  /\ ~IsChapterTitle(j - 1)

\* ---------------------------------------------------------------------------
\* C31
\* ---------------------------------------------------------------------------

\* C31: no blank pages: for a non-empty line stream, every page of the
\* document, the initial page included, has at least one line placed on it
\* (a break marker counts): once a line is placed no page is without one, so
\* drawTextLines never starts a new page while the current page is empty.
C31_NoBlankPages ==
    placed # <<>> => \A n \in 1..page : LinesOnPage(n) # {}

\* ---------------------------------------------------------------------------
\* C32
\* ---------------------------------------------------------------------------

\* The lines from line k (0-based) through the next line flagged isLastLine.
LinesThroughParagraphEnd(k) ==
    LET ends == {l \in k..(Len(lines) - 1) : isLastLine[l + 1]}
    IN  IF ends = {} THEN 0
        ELSE (CHOOSE l \in ends : \A m \in ends : l <= m) - k + 1

\* C32: paragraph lookahead: when drawTextLines applies the page-break rules
\* to line i of the lines createLines returned, remainingLinesInParagraph is
\* the number of lines from i through the isLastLine line of i's paragraph:
\* it is computed at the paragraph's first line and is one less at each
\* further line of the paragraph.
C32_ParagraphLookahead ==
    (pc = "drawTextLines" /\ i < Len(lines) /\ lines[i + 1] # EmptyString) =>
        RemainingLinesAt(i) = LinesThroughParagraphEnd(i)

\* ---------------------------------------------------------------------------
\* C33
\* ---------------------------------------------------------------------------

\* A step of drawTextLines that draws line i.
DrawsLine == pc = "drawTextLines" /\ i' = i + 1 /\ lines[i + 1] # EmptyString

\* While line i is processed, after the colon rule and the isLastLine update:
\* a colon is pending and the paragraph closed last lies past the colon's line.
CloseConditionArises ==
    LET colon == EndsWithColon(lines[i + 1])
        pending == colon \/ colonEncountered
        after == IF colon THEN i ELSE afterColonLineIndex
        last == IF isLastLine[i + 1] THEN i ELSE lastLineOfParagraph
    IN  pending /\ last > after

\* The line-heights a drawn line i consumes apart from a colon close: its own,
\* one for its colon, one for a chapter title.
OwnLineHeights ==
    1 + (IF EndsWithColon(lines[i + 1]) THEN 1 ELSE 0) + (IF IsChapterTitle(i) THEN 1 ELSE 0)

NoColonPendingPastClose ==
    ~(colonEncountered /\ lastLineOfParagraph > afterColonLineIndex)

ColonCloseStep ==
    DrawsLine =>
        LET drawnAt == placed'[Len(placed')]
            closing == IF CloseConditionArises THEN 1 ELSE 0
        IN  /\ yPos' = drawnAt.yPos - (OwnLineHeights + closing) * lineHeight
            /\ remainingSpace' = drawnAt.remainingSpace - (OwnLineHeights + closing) * lineHeight
            /\ CloseConditionArises =>
                  /\ ~colonEncountered'
                  /\ afterColonLineIndex' = -1
                  /\ lastLineOfParagraph' = -1

\* C33: colon-close rule: after drawTextLines has processed a line, a colon
\* is never pending while the index of the paragraph closed last is greater
\* than the pending colon's line index; when that condition arises while a
\* line is processed, exactly one extra line-height is consumed and
\* colonEncountered, afterColonLineIndex and lastLineOfParagraph are reset in
\* the same step.
C33_ColonCloseRule ==
    [](NoColonPendingPastClose) /\ [][ColonCloseStep]_vars

\* 'aa to:' then the paragraph's last line 'aa aa': the close has just fired
C33_Witness ==
    /\ pc = "drawTextLines"
    /\ i = 2
    /\ lines[1] = <<1, 3>> /\ ~isLastLine[1]
    /\ lines[2] = <<1, 1>> /\ isLastLine[2]
    /\ placed[2].page = placed[1].page
    /\ yPos = placed[2].yPos - 2 * lineHeight
    /\ ~colonEncountered /\ afterColonLineIndex = -1 /\ lastLineOfParagraph = -1

\* ---------------------------------------------------------------------------
\* C34
\* ---------------------------------------------------------------------------

ColonStateConsistent ==
    /\ colonEncountered <=> afterColonLineIndex >= 0
    /\ \A j \in 1..(Len(placed) - 1) :
          (/\ lines[j] # EmptyString /\ EndsWithColon(lines[j])
           /\ placed[j + 1].page = placed[j].page)
              => placed[j].yPos - placed[j + 1].yPos >= 2 * lineHeight

ColonStep ==
    (DrawsLine /\ EndsWithColon(lines[i + 1])) =>
        LET drawnAt == placed'[Len(placed')]
        IN  /\ \/ /\ colonEncountered' /\ afterColonLineIndex' = i
                  /\ yPos' = drawnAt.yPos - OwnLineHeights * lineHeight
                  /\ remainingSpace' = drawnAt.remainingSpace - OwnLineHeights * lineHeight
               \/ /\ CloseConditionArises
                  /\ ~colonEncountered' /\ afterColonLineIndex' = -1
                  /\ yPos' = drawnAt.yPos - (OwnLineHeights + 1) * lineHeight

\* C34: colon rule: every drawn line whose text ends with ':' consumes
\* exactly one extra line-height at once (the next line placed on the same
\* page is at least 2 line-heights lower) and leaves the colon pending with
\* afterColonLineIndex the index of that line, unless the colon is closed in
\* the same step; in every reachable state colonEncountered is true exactly
\* when afterColonLineIndex >= 0.
C34_ColonRule ==
    [](ColonStateConsistent) /\ [][ColonStep]_vars

\* 'aa to:' was drawn, the colon is pending, and the next line of the
\* paragraph lies 2 line-heights below it
C34_Witness ==
    /\ pc = "drawTextLines"
    /\ i = 2
    /\ lines[1] = <<1, 3>> /\ ~isLastLine[1]
    /\ lines[2] = <<1, 1>> /\ ~isLastLine[2]
    /\ placed[2].page = placed[1].page
    /\ placed[1].yPos - placed[2].yPos = 2 * lineHeight
    /\ colonEncountered /\ afterColonLineIndex = 0

\* ---------------------------------------------------------------------------
\* C35
\* ---------------------------------------------------------------------------

\* Line j (1-based) was drawn and ends with ':'.
ColonLineDrawn(j) == lines[j] # EmptyString /\ EndsWithColon(lines[j])

\* The space the step of line j consumed beyond what the line takes by itself
\* (a marker its paragraphBreakHeight; a drawn line its line-height, one more
\* for its colon and one more as a chapter title): the closing line-heights.
ClosingSpace(j) ==
    placed[j].consumed
      - (IF lines[j] = EmptyString THEN paragraphBreakHeight
         ELSE lineHeight * (1 + (IF EndsWithColon(lines[j]) THEN 1 ELSE 0)
                              + (IF IsChapterTitle(j - 1) THEN 1 ELSE 0)))

\* C35: colon spacing is never double-charged on close: the closing extra
\* line-heights consumed so far, by the break-marker rule or by the
\* colon-close rule, are never more than the colon-ending lines drawn so far,
\* and a pending colon is closed at most once: a step closes with one
\* line-height or none, and between two closings (and before the first) a
\* line ending with ':' was drawn, two consecutive colon lines included.
C35_ColonClosedOnce ==
    \A j \in 1..Len(placed) :
        /\ ClosingSpace(j) \in {0, lineHeight}
        /\ ClosingSpace(j) = lineHeight =>
              \E c \in 1..j :
                  /\ ColonLineDrawn(c)
                  /\ \A m \in c..(j - 1) : ClosingSpace(m) = 0
        /\ Cardinality({m \in 1..j : ClosingSpace(m) = lineHeight})
              <= Cardinality({m \in 1..j : ColonLineDrawn(m)})

\* two consecutive lines ending with ':', then a break marker that closes the
\* colon, then a paragraph whose last line closes nothing
C35_Witness ==
    /\ Len(placed) = 5
    /\ ColonLineDrawn(1) /\ ColonLineDrawn(2) /\ isLastLine[2]
    /\ lines[3] = EmptyString
    /\ ClosingSpace(3) = lineHeight
    /\ isLastLine[5]
    /\ ClosingSpace(5) = 0

\* ---------------------------------------------------------------------------
\* C36
\* ---------------------------------------------------------------------------

\* The next line placed on the page of a drawn line lies below it by what the
\* step of the drawn line consumed.
GapIsWhatWasConsumed ==
    \A j \in 1..(Len(placed) - 1) :
        (lines[j] # EmptyString /\ placed[j + 1].page = placed[j].page)
            => placed[j].yPos - placed[j + 1].yPos = placed[j].consumed

ChapterTitleStep ==
    DrawsLine =>
        LET drawnAt == placed'[Len(placed')]
            colon == IF EndsWithColon(lines[i + 1]) THEN 1 ELSE 0
            closing == IF CloseConditionArises THEN 1 ELSE 0
        IN  /\ drawnAt.consumed = drawnAt.yPos - yPos'
            /\ (IsChapterTitle(i) /\ colon = 0 /\ closing = 0)
                  => drawnAt.consumed = 2 * lineHeight
            /\ IsChapterTitle(i) => drawnAt.consumed = (2 + colon + closing) * lineHeight
            /\ ~IsChapterTitle(i) => drawnAt.consumed = (1 + colon + closing) * lineHeight

\* C36: chapter-title spacing: after drawing a chapter title drawTextLines
\* consumes exactly one line-height more than the line's own, so the next
\* line placed on that page is exactly 2 line-heights below the title when
\* the title does not end with ':' and closes no pending colon; a line that
\* is no chapter title never gets this extra gap.
C36_ChapterTitleSpacing ==
    [](GapIsWhatWasConsumed) /\ [][ChapterTitleStep]_vars

\* a one-line chapter title and, 2 line-heights below it on its page, the
\* first line of the next paragraph
C36_Witness ==
    /\ Len(placed) >= 2
    /\ lines[1] = <<4, 5, 1>> /\ isLastLine[1] /\ IsChapterTitle(0)
    /\ lines[2] = <<1, 1>>
    /\ placed[2].page = placed[1].page
    /\ placed[1].yPos - placed[2].yPos = 2 * lineHeight

\* ---------------------------------------------------------------------------
\* C37
\* ---------------------------------------------------------------------------

CursorMatchesSpace ==
    /\ remainingSpace = yPos - margin
    /\ \A j \in 1..Len(placed) :
          /\ placed[j].remainingSpace = placed[j].yPos - margin
          \* the first line placed on a new page is at the top of it
          /\ (j > 1 /\ placed[j].page > placed[j - 1].page)
                => placed[j].yPos = pageHeight - margin

SpacingStep ==
    (pc = "drawTextLines" /\ i' = i + 1) =>
        LET drawnAt == placed'[Len(placed')]
        IN  /\ page' = drawnAt.page
            /\ page' > page => drawnAt.yPos = pageHeight - margin
            /\ page' = page => (drawnAt.yPos = yPos /\ drawnAt.remainingSpace = remainingSpace)
            /\ yPos' < drawnAt.yPos
            /\ drawnAt.yPos - yPos' = drawnAt.remainingSpace - remainingSpace'

\* C37: cursor/space consistency: in every reachable state of drawTextLines
\* remainingSpace = yPos - margin; every new page resets yPos to
\* pageHeight - margin, and every spacing step decreases yPos and
\* remainingSpace by the same amount.
C37_CursorSpaceConsistency ==
    [](CursorMatchesSpace) /\ [][SpacingStep]_vars

\* on a later page, after a line and its colon's extra line-height
C37_Witness ==
    /\ pc = "drawTextLines"
    /\ page >= 2
    /\ Len(placed) >= 2
    /\ placed[Len(placed)].page = page
    /\ placed[Len(placed)].yPos = pageHeight - margin
    /\ placed[Len(placed)].page > placed[Len(placed) - 1].page
    /\ yPos = pageHeight - margin - 2 * lineHeight
    /\ remainingSpace = yPos - margin

\* ---------------------------------------------------------------------------
\* C38
\* ---------------------------------------------------------------------------

\* Line j (1-based) is drawn indented: a first line that is no chapter title.
DrawnIndented(j) == isFirstLine[j] /\ ~IsChapterTitle(j - 1)

\* C38: x-origin and indent: a line is drawn starting at x = margin + indent
\* exactly when it is a paragraph's first line and no chapter title, and at
\* x = margin otherwise; the indent of the x-origin and of the justification
\* width is parIndentWidth, the indent createLines took off the first line's
\* usable width: an indented justified line ends at margin + textMaxWidth.
C38_XOriginAndIndent ==
    \A j \in 1..Len(placed) :
        lines[j] # EmptyString =>
            LET calls == placed[j].calls
                last == calls[Len(calls)]
            IN  /\ calls[1].x = [num |-> calls[1].x.den
                                           * (IF DrawnIndented(j) THEN margin + parIndentWidth
                                              ELSE margin),
                                 den |-> calls[1].x.den]
                /\ (DrawnIndented(j) /\ ~isLastLine[j] /\ WordCount(lines[j]) >= 2) =>
                      last.x.num + last.x.den * widthOfTextAtSize(last.text, last.size)
                          = last.x.den * (margin + textMaxWidth)

\* 'aa aa CHAPTER 1. 1.' at textMaxWidth 60: the first line is drawn indented
\* and justified, its continuation line at the margin
C38_Witness ==
    /\ Len(placed) >= 2
    /\ textMaxWidth = 60
    /\ lines[1] = <<1, 1>> /\ isFirstLine[1] /\ ~isLastLine[1]
    /\ placed[1].calls[1].x.num = margin + parIndentWidth
    /\ placed[1].calls[2].x.num = margin + textMaxWidth - widthOfTextAtSize(<<1>>, fontSize)
    /\ ~isFirstLine[2]
    /\ placed[2].calls[1].x.num = margin

\* ---------------------------------------------------------------------------
\* C39
\* ---------------------------------------------------------------------------

\* The steps of createPDF at which it awaits.
SuspensionPoints == {"loadFont", "readFile", "addPageNumbers", "save", "writeFile"}

\* How often the step was begun.
TimesBegun(step) == Cardinality({k \in 1..Len(steps) : steps[k] = step})

Begun(step) == TimesBegun(step) >= 1

\* createLines has begun and drawTextLines has not returned.
InLayout == pc \in {"createLines", "linesDone", "drawTextLines"}

PipelineOrder ==
    \* no suspension point between the begin of createLines and the return of
    \* drawTextLines
    /\ InLayout => /\ Begun("loadFont") /\ Begun("readFile")
                   /\ \A step \in {"addPageNumbers", "save", "writeFile"} : ~Begun(step)
    \* the font is loaded before a width is measured
    /\ (Begun("createLines") \/ lines # <<>> \/ currentLine # EmptyString) => Begun("loadFont")
    \* the overlay runs once, after drawTextLines has returned with all pages
    /\ TimesBegun("addPageNumbers") <= 1
    /\ overlay # <<>> <=> Begun("addPageNumbers")
    /\ Begun("addPageNumbers") =>
          /\ Begun("drawTextLines") /\ Len(placed) = Len(lines)
          /\ \A j \in 1..Len(placed) : placed[j].page <= page
          /\ Len(overlay) <= page
    \* and before save
    /\ pdfBytes # <<>> =>
          /\ Begun("save")
          /\ Len(pdfBytes[1].overlay) = pdfBytes[1].pages
          /\ pdfBytes[1] = Document
    \* save completes before the file is written
    /\ written # <<>> => /\ pdfBytes # <<>>
                         /\ written = pdfBytes

PipelineStep ==
    /\ InLayout => (steps' = steps \/ steps' = Append(steps, "drawTextLines"))
    /\ Begun("addPageNumbers") => page' = page

\* C39: pipeline ordering: in createPDF every suspension point lies before
\* createLines begins or after drawTextLines has returned; the font is loaded
\* before any width is measured, the page-number overlay runs exactly once,
\* after drawTextLines has created all pages and before save, and save
\* completes before the output file is written.
C39_PipelineOrdering ==
    [](PipelineOrder) /\ [][PipelineStep]_vars

\* a run that wrote a document of several pages, every step begun once
C39_Witness ==
    /\ pc = "written"
    /\ steps = RunOrder
    /\ page >= 2
    /\ Len(overlay) = page
    /\ written = pdfBytes
====
